---- MODULE Spec2Model ----
(***************************************************************************)
(* Rate limiting of go-template-v1 (core/ratelimit): the in-memory and the *)
(* Redis sliding-window limiters, the rate-limit middleware and the        *)
(* selection of the backend in NewHttpServer.                              *)
(*                                                                         *)
(* Time is counted in ticks of the clock, a tick being a minute; a         *)
(* time.Time is the tick at which time.Now() was read and a time.Duration  *)
(* a number of ticks.                                                      *)
(***************************************************************************)
EXTENDS Integers, Sequences, FiniteSets, TLC

\* ---------------------------------------------------------------- bounds

\* The last tick of the clock.
MaxTime == 3
\* The largest Config.Requests a limiter is constructed with.
MaxRequests == 2
\* The largest Config.Window (in ticks) a limiter is constructed with.
MaxWindow == 2
\* The number of calls the goroutines of Procs begin between them.
MaxCalls == 2

\* The distance, in ticks, between two float64 values at the size of a
\* UnixNano timestamp (a tick of the model is that many nanoseconds or a
\* multiple of it).
FloatSpacing == 1

\* The rate-limit keys (the strings a KeyBuilder returns).
Keys == {"ka", "kb"}

\* The goroutines serving requests at the same time.
Procs == {"p1", "p2"}

\* ------------------------------------------------------------- the state

VARIABLES
    clock,      \* the wall clock read by time.Now()
    config,     \* ratelimit.Config of the limiter: Requests, Window
    store,      \* memoryLimiter.store: key -> *windowCounter (Nil: no entry)
    heap,       \* the windowCounter objects: requests, mutex
    obs,        \* what the last completed call on the in-memory limiter returned
    hist,       \* per key: the calls made since the key was last fresh
    redisUp,    \* whether the Redis server answers
    rdb,        \* the Redis database: per key its sorted set and its expiry
    robs,       \* what the last completed call on the Redis limiter returned
    rhist,      \* per key: the last call made on the Redis limiter
    mapMutex,   \* memoryLimiter.mutex: the goroutine holding it
    calls,      \* per goroutine: the call it is in, its place and its locals
    started,    \* the number of calls the goroutines have begun
    appConfig,      \* config.GetConfig(): the RateLimit section as configured
    redisOnce,      \* cache.redisOnce: whether its Do has run
    redisInstance,  \* cache.redisInstance
    server,         \* what NewHttpServer has built
    redisConfig,    \* cfg.Redis, the RedisConfig of NewRedisService
    resp,           \* the last request served and the response to it
    cacheConfig,    \* the CacheMiddlewareConfig given to CacheMiddleware
    patterns,       \* the patterns given to CacheInvalidateMiddleware
    outerHeaders,   \* the headers the middleware in front sets on every response
    cache,          \* the Redis database: the string keys of the cache
    cresp,          \* the last request the cache middlewares served
    inflight,       \* the requests the cache middlewares are serving, step by step
    authConfig,     \* the AuthConfig given to AuthMiddleware, the roles to RequireRoles
    aresp           \* the last request the auth middlewares served

vars ==
    <<clock, config, store, heap, obs, hist, redisUp, rdb, robs, rhist,
      mapMutex, calls, started, appConfig, redisOnce, redisInstance, server,
      redisConfig, resp, cacheConfig, patterns, outerHeaders, cache, cresp,
      inflight, authConfig, aresp>>

srvVars == <<appConfig, redisOnce, redisInstance, server, redisConfig, resp>>

concVars == <<mapMutex, calls, started>>

memVars == <<store, heap, obs, hist>>

redisVars == <<rdb, robs, rhist>>

cacheVars == <<cacheConfig, patterns, outerHeaders, cache, cresp, inflight>>

authVars == <<authConfig, aresp>>

\* ------------------------------------------------ values and pure helpers

Nil == 0
NoOne == "nobody"

CounterIds == 1..(Cardinality(Keys) + Cardinality(Procs))

Max(a, b) == IF a > b THEN a ELSE b

Min(a, b) == IF a < b THEN a ELSE b

\* A cell of the heap no pointer refers to.
FreeCell == [live |-> FALSE, requests |-> <<>>, mutex |-> NoOne]

\* &windowCounter{requests: make([]time.Time, 0)}
NewCounter == [live |-> TRUE, requests |-> <<>>, mutex |-> NoOne]

\* The address the allocator hands out: a cell nothing refers to.
Alloc(hp) == CHOOSE c \in DOMAIN hp : ~hp[c].live /\ \A d \in DOMAIN hp : ~hp[d].live => c <= d

\* Garbage collection: a counter that neither the map nor a running call
\* (refs) points to is gone.
Sweep(st, hp, refs) ==
    [c \in DOMAIN hp |->
        IF (\E k \in Keys : st[k] = c) \/ c \in refs THEN hp[c] ELSE FreeCell]

\* The result of a call the Go code returns as (bool, *Result, error).
NoResult == [Allowed |-> FALSE, Limit |-> 0, Remaining |-> 0, ResetTime |-> 0, RetryAfter |-> 0]

\* ------------------------------------------- the in-memory limiter (pure)

\* windowStart := now.Add(-m.config.Window)
WindowStart(now, cfg) == now - cfg.Window

\* time.Time.After
After(t, u) == t > u

\* "Remove old requests outside the window": the requests after windowStart,
\* in their order.
Evict(requests, windowStart) ==
    SelectSeq(requests, LAMBDA req : After(req, windowStart))

\* Mutants of Admits: the comparison off by one, either way.
AdmitsOneMore(count, cfg) == count <= cfg.Requests

AdmitsOneLess(count, cfg) == count + 1 < cfg.Requests

\* allowed := len(counter.requests) < m.config.Requests
Admits(count, cfg) == count < cfg.Requests

\* RetryAfter of the in-memory limiter: set only for a denied call on a counter
\* with a request left, from the oldest one; the zero Duration otherwise.
MemRetryAfter(allowed, requests, now, cfg) ==
    IF ~allowed /\ Len(requests) > 0
    THEN requests[1] + cfg.Window - now
    ELSE 0

\* Mutant of MemWindow: the call is recorded whether admitted or not.
MemWindowRecordsDenied(requests, now, cfg) ==
    LET valid   == Evict(requests, WindowStart(now, cfg))
        allowed == Admits(Len(valid), cfg)
        kept    == Append(valid, now)
    IN  [requests |-> kept,
         result   |-> [Allowed    |-> allowed,
                       Limit      |-> cfg.Requests,
                       Remaining  |-> Max(0, cfg.Requests - Len(kept)),
                       ResetTime  |-> now + cfg.Window,
                       RetryAfter |-> MemRetryAfter(allowed, kept, now, cfg)]]

\* The section of memoryLimiter.Allow run under counter.mutex, on the requests
\* of the counter: evict, check, append, build the Result.
MemWindow(requests, now, cfg) ==
    LET valid   == Evict(requests, WindowStart(now, cfg))
        allowed == Admits(Len(valid), cfg)
        kept    == IF allowed THEN Append(valid, now) ELSE valid
    IN  [requests |-> kept,
         result   |-> [Allowed    |-> allowed,
                       Limit      |-> cfg.Requests,
                       Remaining  |-> Max(0, cfg.Requests - Len(kept)),
                       ResetTime  |-> now + cfg.Window,
                       RetryAfter |-> MemRetryAfter(allowed, kept, now, cfg)]]

\* counter, exists := m.store[key]; if !exists { counter = new; m.store[key] = counter }
LookupOrInsert(st, hp, k) ==
    IF st[k] # Nil
    THEN [store |-> st, heap |-> hp, counter |-> st[k]]
    ELSE LET c == Alloc(hp)
         IN  [store   |-> [st EXCEPT ![k] = c],
              heap    |-> [hp EXCEPT ![c] = NewCounter],
              counter |-> c]

\* Mutant of DeleteKey: the whole map is cleared.
DeleteEveryKey(st, k) == [j \in Keys |-> Nil]

\* delete(m.store, key)
DeleteKey(st, k) == [st EXCEPT ![k] = Nil]

\* The requests recorded for a key: those of its counter, none without one.
Recorded(k) == IF store[k] = Nil THEN <<>> ELSE heap[store[k]].requests

\* ----------------------------------------------------- history of a key

\* What is known of a key since it was last fresh (constructed or reset):
\* the admitted calls still newer than clock - Window, the time of the first
\* admitted call, of the first and of the last call, the number of calls
\* (counted up to MaxRequests + 1), the last operation on the key, whether a
\* Reset found the quota of the key used up, and solo: the requests a limiter would
\* record that was given the calls on this key alone.
FreshHist ==
    [admitted |-> <<>>, first |-> -1, since |-> -1, last |-> -1, calls |-> 0,
     prev |-> "none", wasFull |-> FALSE, solo |-> <<>>]

NoObs ==
    [op |-> "none", key |-> "", now |-> 0, err |-> FALSE, result |-> NoResult,
     inWindow |-> 0, first |-> -1, since |-> -1, last |-> -1, nth |-> 0,
     prev |-> "none", wasFull |-> FALSE, soloResult |-> NoResult]

InWindow(times, now, cfg) == SelectSeq(times, LAMBDA t : t > now - cfg.Window)

\* -------------------------------------- the in-memory limiter, one caller

\* memoryLimiter.Allow(ctx, key), the whole call.
MemoryAllow(k) ==
    LET now  == clock
        got  == LookupOrInsert(store, heap, k)
        w    == MemWindow(got.heap[got.counter].requests, now, config)
        h    == hist[k]
        seen == InWindow(h.admitted, now, config)
        solo == MemWindow(h.solo, now, config)
    IN  /\ store' = got.store
        /\ heap' = [got.heap EXCEPT ![got.counter].requests = w.requests]
        /\ obs' = [op |-> "Allow", key |-> k, now |-> now, err |-> FALSE,
                   result |-> w.result,
                   inWindow |-> Len(seen), first |-> h.first, since |-> h.since,
                   last |-> h.last, nth |-> Min(h.calls + 1, config.Requests + 1),
                   prev |-> h.prev, wasFull |-> h.wasFull,
                   soloResult |-> solo.result]
        /\ hist' = [hist EXCEPT ![k] =
                      [admitted |-> IF w.result.Allowed THEN Append(seen, now) ELSE seen,
                       first    |-> IF h.first = -1 /\ w.result.Allowed THEN now ELSE h.first,
                       since    |-> IF h.since = -1 THEN now ELSE h.since,
                       last     |-> now,
                       calls    |-> Min(h.calls + 1, config.Requests + 1),
                       prev     |-> "Allow",
                       wasFull  |-> FALSE,
                       solo     |-> solo.requests]]

\* memoryLimiter.Reset(ctx, key), the whole call.
MemoryReset(k) ==
    LET st == DeleteKey(store, k)
    IN  /\ store' = st
        /\ heap' = Sweep(st, heap, {})
        /\ obs' = [NoObs EXCEPT !.op = "Reset", !.key = k, !.now = clock]
        /\ hist' = [hist EXCEPT ![k] =
                      [FreshHist EXCEPT
                         !.prev = "Reset",
                         !.wasFull = Len(Evict(Recorded(k), WindowStart(clock, config)))
                                        >= config.Requests]]

\* ------------------------------------------------- the Redis server

\* A key that does not exist: Redis keeps no empty sorted set.
NoKey == [zset |-> {}, expireAt |-> -1]

\* The database at server time t: a key whose expiry has come is gone.
Live(db, t) ==
    [k \in Keys |->
        IF db[k].expireAt # -1 /\ t >= db[k].expireAt THEN NoKey ELSE db[k]]

\* float64(n), and the double Redis parses from the decimal string of n: the
\* nearest multiple of FloatSpacing, the even one on a tie.
Float64(n) ==
    LET q == n \div FloatSpacing
        r == n - q * FloatSpacing
    IN  IF 2 * r < FloatSpacing THEN q * FloatSpacing
        ELSE IF 2 * r > FloatSpacing THEN (q + 1) * FloatSpacing
        ELSE IF q % 2 = 0 THEN q * FloatSpacing
        ELSE (q + 1) * FloatSpacing

\* ZREMRANGEBYSCORE key 0 max: the members with a score up to max go (every
\* score of the model is above the lower end, 0); without members the key goes.
ZRemRangeByScore(db, k, max) ==
    LET left == {e \in db[k].zset : ~(e.score <= max)}
    IN  [db EXCEPT ![k] = IF left = {} THEN NoKey ELSE [@ EXCEPT !.zset = left]]

\* ZCARD key
ZCard(db, k) == Cardinality(db[k].zset)

\* ZADD key score member: a member already in the set only gets the score.
ZAdd(db, k, score, member) ==
    [db EXCEPT ![k].zset =
        {e \in @ : e.member # member} \cup {[member |-> member, score |-> score]}]

\* EXPIRE key ttl at server time t: nothing for a key that does not exist.
Expire(db, k, ttl, t) ==
    IF db[k].zset = {} THEN db ELSE [db EXCEPT ![k].expireAt = t + ttl]

\* Mutant of Del: the key stays.
DelNothing(db, k) == db

\* DEL key
Del(db, k) == [db EXCEPT ![k] = NoKey]

\* How a round trip to the server can end: all commands done and answered, or
\* an error after the server ran the first `done` of them. A server that is
\* down runs none.
Outcomes(n) ==
    IF redisUp
    THEN {[done |-> n, err |-> FALSE]} \cup {[done |-> d, err |-> TRUE] : d \in 0..n}
    ELSE {[done |-> 0, err |-> TRUE]}

\* --------------------------------------------- the Redis limiter (pure)

\* r.config.Window + time.Minute, the minute counted as one tick.
ExpireGrace == 1

\* The four commands of the pipeline of redisLimiter.Allow, the first `done`
\* of them run in order by the server at time t: the database after them and
\* the reply to ZCARD.
RedisPipeline(db, k, now, cfg, done, t) ==
    LET db0 == Live(db, t)
        db1 == IF done >= 1
               THEN ZRemRangeByScore(db0, k, Float64(WindowStart(now, cfg)))
               ELSE db0
        db3 == IF done >= 3 THEN ZAdd(db1, k, Float64(now), now) ELSE db1
        db4 == IF done >= 4 THEN Expire(db3, k, cfg.Window + ExpireGrace, t) ELSE db3
    IN  [db |-> db4, count |-> ZCard(db1, k)]

\* Mutant of RedisResult: Remaining without the call itself.
RedisResultCountsBefore(currentCount, now, cfg) ==
    [Allowed    |-> currentCount < cfg.Requests,
     Limit      |-> cfg.Requests,
     Remaining  |-> Max(0, cfg.Requests - currentCount),
     ResetTime  |-> now + cfg.Window,
     RetryAfter |-> cfg.Window]

\* The Result redisLimiter.Allow builds from the reply to ZCARD.
RedisResult(currentCount, now, cfg) ==
    [Allowed    |-> currentCount < cfg.Requests,
     Limit      |-> cfg.Requests,
     Remaining  |-> Max(0, cfg.Requests - currentCount - 1),
     ResetTime  |-> now + cfg.Window,
     RetryAfter |-> cfg.Window]

\* Of the Redis limiter, per key: the last operation on the key and how it
\* ended, whether a Reset found the quota used up, clean: no call on the key
\* has failed so far, the time of the last Allow since the last Reset, and
\* spaced: no two Allow calls since the last Reset read the same time.
NoRObs == [op |-> "none", key |-> "", now |-> 0, err |-> FALSE, result |-> NoResult,
           count |-> 0,
           prev |-> "none", wasFull |-> FALSE, clean |-> TRUE, spaced |-> TRUE]

FreshRHist ==
    [prev |-> "none", wasFull |-> FALSE, clean |-> TRUE, lastAllow |-> -1,
     spaced |-> TRUE]

\* ----------------------------------------- the Redis limiter, one caller

\* What redisLimiter.Allow(ctx, key) returns when the round trip of its
\* pipeline ends as out, and the database it leaves: (false, nil, err) when
\* pipe.Exec returns an error.
RedisAllowReturns(db, k, now, cfg, out) ==
    LET p == RedisPipeline(db, k, now, cfg, out.done, now)
    IN  [db |-> p.db, err |-> out.err, count |-> IF out.err THEN 0 ELSE p.count,
         result |-> IF out.err THEN NoResult ELSE RedisResult(p.count, now, cfg)]

\* redisLimiter.Allow(ctx, key), the whole call.
RedisAllow(k) ==
    \E out \in Outcomes(4) :
        LET now == clock
            ret == RedisAllowReturns(rdb, k, now, config, out)
        IN  /\ rdb' = ret.db
            /\ robs' = [op |-> "Allow", key |-> k, now |-> now, err |-> out.err,
                        result |-> ret.result,
                        count |-> ret.count,
                        prev |-> rhist[k].prev, wasFull |-> rhist[k].wasFull,
                        clean |-> rhist[k].clean /\ ~out.err,
                        spaced |-> rhist[k].spaced /\ rhist[k].lastAllow # now]
            /\ rhist' = [rhist EXCEPT ![k] =
                           [prev |-> IF out.err THEN "AllowError" ELSE "Allow",
                            wasFull |-> FALSE,
                            clean |-> @.clean /\ ~out.err,
                            lastAllow |-> now,
                            spaced |-> @.spaced /\ @.lastAllow # now]]

\* redisLimiter.Reset(ctx, key), the whole call: cacheService.Delete(ctx, key).
RedisReset(k) ==
    \E out \in Outcomes(1) :
        /\ rdb' = IF out.done >= 1 THEN Del(Live(rdb, clock), k) ELSE Live(rdb, clock)
        /\ robs' = [NoRObs EXCEPT !.op = "Reset", !.key = k, !.now = clock,
                                  !.err = out.err, !.prev = rhist[k].prev,
                                  !.clean = rhist[k].clean /\ ~out.err,
                                  !.spaced = rhist[k].spaced]
        /\ rhist' = [rhist EXCEPT ![k] =
                       [prev |-> IF out.err THEN "ResetError" ELSE "Reset",
                        wasFull |-> ZCard(ZRemRangeByScore(Live(rdb, clock), k,
                                              Float64(WindowStart(clock, config))), k)
                                       >= config.Requests,
                        clean |-> @.clean /\ ~out.err,
                        lastAllow |-> IF out.err THEN @.lastAllow ELSE -1,
                        spaced |-> IF out.err THEN @.spaced ELSE TRUE]]

\* ------------------------------- the in-memory limiter, many callers

\* A goroutine in no call.
NoCall ==
    [pc |-> "idle", op |-> "none", key |-> "", now |-> 0, counter |-> Nil,
     seen |-> 0, allowed |-> FALSE, result |-> NoResult]

\* The counters the running calls hold a pointer to.
Held(cs) == {cs[q].counter : q \in Procs} \ {Nil}

\* Mutant of CanLock: Lock returns at once, whoever holds the mutex.
CanLockAlways(holder) == TRUE

\* sync.RWMutex.Lock returns once nobody holds the mutex.
CanLock(holder) == holder = NoOne

\* now := time.Now(); windowStart := now.Add(-m.config.Window)
AllowBegin(p, k) ==
    /\ calls[p].pc = "idle"
    /\ started < MaxCalls
    /\ started' = started + 1
    /\ calls' = [calls EXCEPT ![p] =
                    [NoCall EXCEPT !.pc = "lockMap", !.op = "Allow", !.key = k,
                                   !.now = clock]]
    /\ UNCHANGED <<store, heap, mapMutex>>

\* m.mutex.Lock()
AllowLockMap(p) ==
    /\ calls[p].pc = "lockMap"
    /\ CanLock(mapMutex)
    /\ mapMutex' = p
    /\ calls' = [calls EXCEPT ![p].pc = "lookup"]
    /\ UNCHANGED <<store, heap, started>>

\* Mutant of AllowLookup: the map lock is kept while the counter is locked.
AllowLookupKeepsMapLock(p) ==
    /\ calls[p].pc = "lookup"
    /\ LET got == LookupOrInsert(store, heap, calls[p].key)
       IN  /\ store' = got.store
           /\ heap' = got.heap
           /\ calls' = [calls EXCEPT ![p].pc = "lockCounter",
                                     ![p].counter = got.counter]
    /\ UNCHANGED <<mapMutex, started>>

\* counter, exists := m.store[key]; if !exists { ... }; m.mutex.Unlock()
AllowLookup(p) ==
    /\ calls[p].pc = "lookup"
    /\ LET got == LookupOrInsert(store, heap, calls[p].key)
       IN  /\ store' = got.store
           /\ heap' = got.heap
           /\ calls' = [calls EXCEPT ![p].pc = "lockCounter",
                                     ![p].counter = got.counter]
    /\ mapMutex' = NoOne
    /\ UNCHANGED started

\* counter.mutex.Lock(); validRequests := ...; counter.requests = validRequests
AllowLockCounter(p) ==
    /\ calls[p].pc = "lockCounter"
    /\ CanLock(heap[calls[p].counter].mutex)
    /\ heap' = [heap EXCEPT
                  ![calls[p].counter].mutex = p,
                  ![calls[p].counter].requests =
                      Evict(@, WindowStart(calls[p].now, config))]
    /\ calls' = [calls EXCEPT ![p].pc = "check"]
    /\ UNCHANGED <<store, mapMutex, started>>

\* allowed := len(counter.requests) < m.config.Requests
AllowCheck(p) ==
    /\ calls[p].pc = "check"
    /\ LET n == Len(heap[calls[p].counter].requests)
       IN  calls' = [calls EXCEPT ![p].pc = "append", ![p].seen = n,
                                  ![p].allowed = Admits(n, config)]
    /\ UNCHANGED <<store, heap, mapMutex, started>>

\* Mutant of AllowAppend: the request is appended whether allowed or not.
AllowAppendAlways(p) ==
    /\ calls[p].pc = "append"
    /\ heap' = [heap EXCEPT ![calls[p].counter].requests = Append(@, calls[p].now)]
    /\ calls' = [calls EXCEPT ![p].pc = "result"]
    /\ UNCHANGED <<store, mapMutex, started>>

\* if allowed { counter.requests = append(counter.requests, now) }
AllowAppend(p) ==
    /\ calls[p].pc = "append"
    /\ heap' = IF calls[p].allowed
               THEN [heap EXCEPT ![calls[p].counter].requests = Append(@, calls[p].now)]
               ELSE heap
    /\ calls' = [calls EXCEPT ![p].pc = "result"]
    /\ UNCHANGED <<store, mapMutex, started>>

\* result := &Result{...}: what the call at "result" is about to return.
ResultOf(p) ==
    LET reqs == heap[calls[p].counter].requests
    IN  [Allowed    |-> calls[p].allowed,
         Limit      |-> config.Requests,
         Remaining  |-> Max(0, config.Requests - Len(reqs)),
         ResetTime  |-> calls[p].now + config.Window,
         RetryAfter |-> MemRetryAfter(calls[p].allowed, reqs, calls[p].now, config)]

\* Mutant of AllowReturn: the call returns without unlocking the counter.
AllowReturnKeepsLock(p) ==
    /\ calls[p].pc = "result"
    /\ calls' = [calls EXCEPT ![p] = NoCall]
    /\ UNCHANGED <<store, heap, mapMutex, started>>

\* return allowed, result, nil, with the deferred counter.mutex.Unlock()
AllowReturn(p) ==
    /\ calls[p].pc = "result"
    /\ LET c    == calls[p].counter
           done == [calls EXCEPT ![p] = NoCall]
       IN  /\ calls' = done
           /\ heap' = Sweep(store, [heap EXCEPT ![c].mutex = NoOne], Held(done))
    /\ UNCHANGED <<store, mapMutex, started>>

\* memoryLimiter.Reset: m.mutex.Lock()
ResetLockMap(p, k) ==
    /\ calls[p].pc = "idle"
    /\ started < MaxCalls
    /\ CanLock(mapMutex)
    /\ started' = started + 1
    /\ mapMutex' = p
    /\ calls' = [calls EXCEPT ![p] = [NoCall EXCEPT !.pc = "delete", !.op = "Reset",
                                                    !.key = k]]
    /\ UNCHANGED <<store, heap>>

\* delete(m.store, key); return nil, with the deferred m.mutex.Unlock()
ResetDelete(p) ==
    /\ calls[p].pc = "delete"
    /\ LET st == DeleteKey(store, calls[p].key)
       IN  /\ store' = st
           /\ heap' = Sweep(st, heap, Held(calls))
    /\ mapMutex' = NoOne
    /\ calls' = [calls EXCEPT ![p] = NoCall]
    /\ UNCHANGED started

\* memoryLimiter.Reset entered: the goroutine is at m.mutex.Lock().
ResetBegin(p, k) ==
    /\ calls[p].pc = "idle"
    /\ started < MaxCalls
    /\ started' = started + 1
    /\ calls' = [calls EXCEPT ![p] = [NoCall EXCEPT !.pc = "lockMapReset", !.op = "Reset",
                                                    !.key = k]]
    /\ UNCHANGED <<store, heap, mapMutex>>

\* m.mutex.Lock() of Reset returns.
ResetLock(p) ==
    /\ calls[p].pc = "lockMapReset"
    /\ CanLock(mapMutex)
    /\ mapMutex' = p
    /\ calls' = [calls EXCEPT ![p].pc = "delete"]
    /\ UNCHANGED <<store, heap, started>>

\* ---------------------------------------- the Redis limiter, many callers

\* pipe := r.cacheService.GetClient().Pipeline() and the four commands queued:
\* Pipeline() is not TxPipeline(), the server runs the commands one by one, in
\* order, and may run the commands of other clients between them.
PipeBegin(p, k) ==
    /\ calls[p].pc = "idle"
    /\ started < MaxCalls
    /\ started' = started + 1
    /\ calls' = [calls EXCEPT ![p] =
                    [NoCall EXCEPT !.pc = "zrem", !.op = "Allow", !.key = k,
                                   !.now = clock]]
    /\ UNCHANGED rdb

\* The server runs ZREMRANGEBYSCORE.
PipeZRem(p) ==
    /\ redisUp
    /\ calls[p].pc = "zrem"
    /\ rdb' = ZRemRangeByScore(Live(rdb, clock), calls[p].key,
                               Float64(WindowStart(calls[p].now, config)))
    /\ calls' = [calls EXCEPT ![p].pc = "zcard"]
    /\ UNCHANGED started

\* The server runs ZCARD.
PipeZCard(p) ==
    /\ redisUp
    /\ calls[p].pc = "zcard"
    /\ rdb' = Live(rdb, clock)
    /\ calls' = [calls EXCEPT ![p].pc = "zadd",
                              ![p].seen = ZCard(Live(rdb, clock), calls[p].key)]
    /\ UNCHANGED started

\* The server runs ZADD.
PipeZAdd(p) ==
    /\ redisUp
    /\ calls[p].pc = "zadd"
    /\ rdb' = ZAdd(Live(rdb, clock), calls[p].key, Float64(calls[p].now), calls[p].now)
    /\ calls' = [calls EXCEPT ![p].pc = "expire"]
    /\ UNCHANGED started

\* The server runs EXPIRE.
PipeExpire(p) ==
    /\ redisUp
    /\ calls[p].pc = "expire"
    /\ rdb' = Expire(Live(rdb, clock), calls[p].key, config.Window + ExpireGrace, clock)
    /\ calls' = [calls EXCEPT ![p].pc = "reply"]
    /\ UNCHANGED started

\* What the call whose ZCARD was answered returns.
PipeResultOf(p) == RedisResult(calls[p].seen, calls[p].now, config)

\* pipe.Exec returned nil: return allowed, result, nil
PipeReturn(p) ==
    /\ calls[p].pc = "reply"
    /\ calls' = [calls EXCEPT ![p] = NoCall]
    /\ UNCHANGED <<rdb, started>>

\* pipe.Exec returned an error (the connection broke, the context ended),
\* whatever the server has run by then: return false, nil, err
PipeFail(p) ==
    /\ calls[p].pc \in {"zrem", "zcard", "zadd", "expire", "reply"}
    /\ calls' = [calls EXCEPT ![p] = NoCall]
    /\ UNCHANGED <<rdb, started>>

\* A RedisConfig with nothing set, and the ReadTimeout values a configuration
\* file can give: unset, a tick, or negative.
ZeroRedisConfig == [ReadTimeout |-> 0]

RedisConfigs == [ReadTimeout : {-1, 0, 1}]

\* redis.NewClient(&redis.Options{ReadTimeout: config.ReadTimeout, ...}): the
\* client puts a deadline on the reads of a reply when ReadTimeout is positive
\* or unset (its default then), none when it is negative.
HasReadDeadline(rc) == rc.ReadTimeout >= 0

\* Whether pipe.Exec(ctx) is bounded in time. The ctx is the one Allow was
\* given, r.Context() in Middleware, without a deadline; Allow adds none.
PipeDeadline(rc) == HasReadDeadline(rc)

\* pipe.Exec gave up waiting for the reply: the read deadline of the client
\* passed. return false, nil, err
PipeTimeout(p) ==
    /\ calls[p].pc \in {"zrem", "zcard", "zadd", "expire", "reply"}
    /\ PipeDeadline(redisConfig)
    /\ calls' = [calls EXCEPT ![p] = NoCall]
    /\ UNCHANGED <<rdb, started>>

\* redisLimiter.Reset by a goroutine: one DEL.
PipeReset(p, k) ==
    /\ calls[p].pc = "idle"
    /\ started < MaxCalls
    /\ started' = started + 1
    /\ rdb' = Del(Live(rdb, clock), k)
    /\ UNCHANGED calls

\* ------------------------------------------- the rate-limit middleware

\* A URL path or a skip path, as the sequence of its characters.
Paths == {<<"/", "h">>, <<"/", "h", "/", "l">>, <<"/", "h", "z">>, <<"/", "a">>}

\* strings.HasPrefix, strings.HasSuffix, strings.TrimSuffix
HasPrefix(str, prefix) ==
    Len(prefix) <= Len(str) /\ SubSeq(str, 1, Len(prefix)) = prefix

HasSuffix(str, suffix) ==
    Len(suffix) <= Len(str)
        /\ SubSeq(str, Len(str) - Len(suffix) + 1, Len(str)) = suffix

TrimSuffix(str, suffix) ==
    IF HasSuffix(str, suffix) THEN SubSeq(str, 1, Len(str) - Len(suffix)) ELSE str

\* "Check skip paths": the loop over config.SkipPaths, the same in shouldSkip
\* and in shouldCache.
MatchesSkipPath(r, cfg) ==
    \E i \in 1..Len(cfg.SkipPaths) :
        LET path == cfg.SkipPaths[i]
        IN  \/ path = r.path
            \/ /\ HasSuffix(path, <<"/", "*">>)
               /\ HasPrefix(r.path, TrimSuffix(path, <<"/", "*">>))

\* A func field that is nil.
NilFunc == "nil"

\* A custom skip function, written by the user of the package: this one skips
\* the requests of the path /a.
SkipPathA(r) == r.path = <<"/", "a">>

\* config.SkipFunc(r), SkipFunc the name of the function.
SkipFunc(name, r) ==
    CASE name = "SkipPathA" -> SkipPathA(r)

\* Mutant of ShouldSkip: no request is skipped.
ShouldSkipNothing(r, cfg) == FALSE

\* shouldSkip(r, config)
ShouldSkip(r, cfg) ==
    \/ cfg.SkipFunc # NilFunc /\ SkipFunc(cfg.SkipFunc, r)
    \/ MatchesSkipPath(r, cfg)

\* GetClientIP(r): the first address of X-Forwarded-For, else X-Real-IP, else
\* CF-Connecting-IP, else the host of RemoteAddr.
GetClientIP(r) ==
    IF r.xff # <<>> THEN Head(r.xff)
    ELSE IF r.xri # "" THEN r.xri
    ELSE IF r.cfip # "" THEN r.cfip
    ELSE r.remote

\* DefaultKeyBuilder(r): fmt.Sprintf("rate_limit:ip:%s", ip), the prefix
\* written k.
DefaultKeyBuilder(r) == "k" \o GetClientIP(r)

\* The ways the client at address a reaches the server: directly, or through
\* the proxy at address b, which sets X-Forwarded-For, X-Real-IP or
\* CF-Connecting-IP.
Direct == [xff |-> <<>>, xri |-> "", cfip |-> "", remote |-> "a"]

Clients ==
    {Direct,
     [xff |-> <<"a", "b">>, xri |-> "b", cfip |-> "b", remote |-> "b"],
     [xff |-> <<>>, xri |-> "a", cfip |-> "b", remote |-> "b"],
     [xff |-> <<>>, xri |-> "", cfip |-> "a", remote |-> "b"]}

HttpRequest(path, client) ==
    [path |-> path, xff |-> client.xff, xri |-> client.xri, cfip |-> client.cfip,
     remote |-> client.remote]

\* The requests the client sends: every path directly, one path in every way.
HttpRequests ==
    {HttpRequest(path, Direct) : path \in Paths}
        \cup {HttpRequest(<<"/", "a">>, client) : client \in Clients}

\* time.Duration.Seconds(), truncated by int64(): a tick is a minute.
SecondsPerTick == 60

Seconds(d) == d * SecondsPerTick

\* No request served yet. status is the status the middleware wrote (0: it
\* wrote none), headers the headers it set, retryAfter the value of
\* Retry-After (-1: not set).
NoResp ==
    [served |-> FALSE, skipped |-> FALSE, limiterCalls |-> 0,
     allowErr |-> FALSE, allowed |-> FALSE, handlerCalls |-> 0, status |-> 0,
     headers |-> {}, retryAfter |-> -1]

\* What limiter.Allow returned to the middleware.
NoReply == [err |-> FALSE, result |-> NoResult]

\* Mutant of Middleware: a limiter error rejects the request.
MiddlewareFailsClosed(r, cfg, reply) ==
    IF ShouldSkip(r, cfg)
    THEN [NoResp EXCEPT !.served = TRUE, !.skipped = TRUE,
                        !.handlerCalls = 1]
    ELSE IF reply.err
    THEN [NoResp EXCEPT !.served = TRUE, !.limiterCalls = 1,
                        !.allowErr = TRUE, !.status = cfg.StatusCode]
    ELSE [NoResp EXCEPT !.served = TRUE, !.limiterCalls = 1,
                        !.allowed = reply.result.Allowed,
                        !.handlerCalls = IF reply.result.Allowed THEN 1 ELSE 0,
                        !.status = IF reply.result.Allowed THEN 0 ELSE cfg.StatusCode]

\* The handler Middleware(limiter, config)(next) returns, serving r: reply is
\* what limiter.Allow returned, if the request is not skipped.
Middleware(r, cfg, reply) ==
    IF ShouldSkip(r, cfg)
    THEN [NoResp EXCEPT !.served = TRUE, !.skipped = TRUE,
                        !.handlerCalls = 1]
    ELSE IF reply.err
    THEN [NoResp EXCEPT !.served = TRUE, !.limiterCalls = 1,
                        !.allowErr = TRUE, !.handlerCalls = 1]
    ELSE LET allowed == reply.result.Allowed
             limits  == IF cfg.IncludeHeaders
                        THEN {"X-RateLimit-Limit", "X-RateLimit-Remaining",
                              "X-RateLimit-Reset"}
                        ELSE {}
         IN  IF ~allowed
             THEN [NoResp EXCEPT
                     !.served = TRUE, !.limiterCalls = 1,
                     !.status = cfg.StatusCode,
                     !.headers = limits \cup {"Content-Type"}
                                   \cup IF cfg.IncludeHeaders THEN {"Retry-After"} ELSE {},
                     !.retryAfter = IF cfg.IncludeHeaders
                                    THEN Seconds(reply.result.RetryAfter) ELSE -1]
             ELSE [NoResp EXCEPT
                     !.served = TRUE, !.limiterCalls = 1,
                     !.allowed = TRUE, !.handlerCalls = 1, !.headers = limits]

\* ------------------------------------------------------ the HTTP server

\* The *CacheService that is nil, and the one NewRedisService returns.
NilService == "nil"
RedisService == "redisService"

\* http.StatusTooManyRequests
StatusTooManyRequests == 429

\* The defaults of createRateLimitConfig: Requests, Window (time.Hour),
\* SkipPaths ("/health", "/health/*", "/metrics" written /h, /h/*, /m).
DefaultRequests == 100
DefaultWindow == 60
DefaultSkipPaths == << <<"/", "h">>, <<"/", "h", "/", "*">>, <<"/", "m">> >>

\* The RateLimit section of the configuration files. Window 0 stands for a
\* string time.ParseDuration rejects (the empty string of a section without
\* a window), Window n >= 1 for the string of n minutes.
AppConfigs ==
    {[Enabled |-> e, Requests |-> n, Window |-> w, IncludeHeaders |-> h,
      StatusCode |-> o.StatusCode, SkipPaths |-> o.SkipPaths] :
        e \in BOOLEAN, n \in 0..MaxRequests, w \in 0..MaxWindow, h \in BOOLEAN,
        o \in {[StatusCode |-> 0, SkipPaths |-> <<>>],
               [StatusCode |-> 503, SkipPaths |-> << <<"/", "a">> >>]}}

\* Where no server is configured.
NoAppConfig ==
    [Enabled |-> FALSE, Requests |-> 0, Window |-> 0, IncludeHeaders |-> FALSE,
     StatusCode |-> 0, SkipPaths |-> <<>>]

\* createRateLimitConfig(cfg)
CreateRateLimitConfig(cfg) ==
    [Requests       |-> IF cfg.Requests = 0 THEN DefaultRequests ELSE cfg.Requests,
     Window         |-> IF cfg.Window = 0 THEN DefaultWindow ELSE cfg.Window,
     IncludeHeaders |-> cfg.IncludeHeaders,
     StatusCode     |-> IF cfg.StatusCode = 0 THEN StatusTooManyRequests
                        ELSE cfg.StatusCode,
     SkipPaths      |-> IF Len(cfg.SkipPaths) = 0 THEN DefaultSkipPaths
                        ELSE cfg.SkipPaths,
     SkipFunc       |-> NilFunc]

\* No server built.
NoServer == [built |-> FALSE, rateLimit |-> FALSE, limiter |-> "none", initErr |-> FALSE]

\* cache.InitRedisService(cfg.Redis): the first call sets redisInstance and
\* then pings (pingErr: the ping failed); a later call does nothing and
\* returns nil.
InitRedisService(once, instance, pingErr) ==
    IF once
    THEN [once |-> TRUE, instance |-> instance, err |-> FALSE]
    ELSE [once |-> TRUE, instance |-> RedisService, err |-> pingErr]

\* cache.GetRedisService()
GetRedisService(instance) == instance

\* The limiter NewHttpServer creates "based on available cache service".
SelectLimiter(cacheService) ==
    IF cacheService # NilService THEN "redis" ELSE "memory"

\* NewHttpServer(), the whole call. repoOk: repository.NewRepository()
\* succeeded; without it no server is returned.
NewHttpServer ==
    /\ ~server.built
    /\ \E ping \in Outcomes(1), repoOk \in BOOLEAN :
        IF appConfig.Enabled
        THEN LET init    == InitRedisService(redisOnce, redisInstance, ping.err)
                 limiter == SelectLimiter(GetRedisService(init.instance))
             IN  /\ redisOnce' = init.once
                 /\ redisInstance' = init.instance
                 /\ config' = CreateRateLimitConfig(appConfig)
                 /\ server' = IF repoOk
                              THEN [built |-> TRUE, rateLimit |-> TRUE,
                                    limiter |-> limiter, initErr |-> init.err]
                              ELSE NoServer
                 /\ IF limiter = "memory"
                    THEN /\ store' = [k \in Keys |-> Nil]
                         /\ heap' = [c \in CounterIds |-> FreeCell]
                         /\ hist' = [k \in Keys |-> FreshHist]
                         /\ obs' = NoObs
                    ELSE UNCHANGED memVars
                 /\ resp' = NoResp
                 /\ UNCHANGED <<clock, appConfig, redisConfig, redisUp, redisVars, concVars, cacheVars, authVars>>
        ELSE /\ server' = IF repoOk
                          THEN [built |-> TRUE, rateLimit |-> FALSE,
                                limiter |-> "none", initErr |-> FALSE]
                          ELSE NoServer
             /\ resp' = NoResp
             /\ UNCHANGED <<clock, config, appConfig, redisConfig, redisUp, redisOnce,
                            redisInstance, memVars, redisVars, concVars, cacheVars, authVars>>

\* The server serves request r: the rate-limit middleware, if installed, with
\* the limiter it was given, then the handler of the route.
ServeHTTP(r) ==
    /\ server.built
    /\ IF ~server.rateLimit
       THEN /\ resp' = [NoResp EXCEPT !.served = TRUE, !.handlerCalls = 1]
            /\ UNCHANGED <<memVars, redisVars>>
       ELSE IF ShouldSkip(r, config)
       THEN /\ resp' = Middleware(r, config, NoReply)
            /\ UNCHANGED <<memVars, redisVars>>
       ELSE IF server.limiter = "redis"
       THEN \E out \in Outcomes(4) :
                LET ret == RedisAllowReturns(rdb, DefaultKeyBuilder(r), clock, config, out)
                IN  /\ rdb' = ret.db
                    /\ resp' = Middleware(r, config, [err |-> ret.err, result |-> ret.result])
                    /\ UNCHANGED <<memVars, robs, rhist>>
       ELSE /\ MemoryAllow(DefaultKeyBuilder(r))
            /\ resp' = Middleware(r, config, [err |-> obs'.err, result |-> obs'.result])
            /\ UNCHANGED redisVars
    /\ UNCHANGED <<clock, config, appConfig, redisConfig, redisUp, redisOnce,
                   redisInstance, server, concVars, cacheVars, authVars>>

\* ------------------------------------------------- the response cache

\* The requests given to the cache middlewares: r.Method, r.URL.Path,
\* r.URL.RawQuery and the Authorization header.
CacheRequest(method, path, query, auth) ==
    [method |-> method, path |-> path, query |-> query, auth |-> auth]

CacheRequests ==
    { CacheRequest("GET", <<"/", "a">>, <<>>, ""),
      CacheRequest("GET", <<"/", "a">>, <<"q">>, ""),
      CacheRequest("GET", <<"/", "b">>, <<>>, ""),
      CacheRequest("GET", <<"/", "a">>, <<>>, "t"),
      CacheRequest("GET", <<"/", "h", "/", "l">>, <<>>, ""),
      CacheRequest("POST", <<"/", "a">>, <<>>, ""),
      CacheRequest("POST", <<"/", "a">>, <<>>, "t"),
      CacheRequest("DELETE", <<"/", "a">>, <<>>, "") }

\* http.Header: per name the values in the order they were added; no value
\* stands for a name the map does not hold.
HeaderNames == {"Content-Type", "Vary", "X-Cache", "X-Cache-Time"}

NoHeaders == [n \in HeaderNames |-> <<>>]

HeaderSet(h, name, value) == [h EXCEPT ![name] = <<value>>]

\* The headers a middleware in front of the cache middleware has set on the
\* response when it calls it: none, or the Vary: Origin of the CORS handler
\* that NewHttpServer puts first in its stack.
OuterHeaders == {NoHeaders, HeaderSet(NoHeaders, "Vary", "Origin")}

\* The http.ResponseWriter of the server: the header map, and what has gone
\* to the client. The first WriteHeader sends the status with the headers as
\* they are then; a later one is dropped; Write sends 200 first when no
\* status has gone.
StatusOK == 200

NewResponseWriter(outer) ==
    [header |-> outer, wroteHeader |-> FALSE, status |-> 0, sent |-> NoHeaders, body |-> <<>>]

WriterWriteHeader(w, statusCode) ==
    IF w.wroteHeader THEN w
    ELSE [w EXCEPT !.wroteHeader = TRUE, !.status = statusCode, !.sent = w.header]

WriterWrite(w, data) ==
    LET w1 == WriterWriteHeader(w, StatusOK)
    IN  [w1 EXCEPT !.body = @ \o data]

\* What the client has received once the handler chain has returned.
Finish(w) ==
    LET w1 == WriterWriteHeader(w, StatusOK)
    IN  [status |-> w1.status, headers |-> w1.sent, body |-> w1.body]

\* responseCapture over a ResponseWriter w; body is absent (nil) in the
\* capture of CacheInvalidateMiddleware, which appends to it all the same.
NewResponseCapture(w) == [w |-> w, statusCode |-> StatusOK, body |-> <<>>]

CaptureWriteHeader(rc, statusCode) ==
    [rc EXCEPT !.statusCode = statusCode, !.w = WriterWriteHeader(@, statusCode)]

CaptureWrite(rc, data) ==
    [rc EXCEPT !.body = @ \o data, !.w = WriterWrite(@, data)]

CaptureHeaderSet(rc, name, value) ==
    [rc EXCEPT !.w.header = HeaderSet(@, name, value)]

\* The handlers behind the middleware, each the calls it makes on its
\* ResponseWriter.
SetHeader(name, value) == [op |-> "Set", name |-> name, value |-> value, code |-> 0, data |-> <<>>]

WriteHeader(code) == [op |-> "WriteHeader", name |-> "", value |-> "", code |-> code, data |-> <<>>]

Write(data) == [op |-> "Write", name |-> "", value |-> "", code |-> 0, data |-> data]

Created == << SetHeader("Content-Type", "json"), WriteHeader(201), Write(<<"a">>) >>

NotFound == << WriteHeader(404), Write(<<"e">>) >>

LateError == << Write(<<"a">>), WriteHeader(500) >>

Handlers == {Created, NotFound, LateError}

\* next.ServeHTTP(w, r) on the server's writer, and on a responseCapture.
RECURSIVE RunOnWriter(_, _)
RunOnWriter(run, w) ==
    IF run = <<>> THEN w
    ELSE LET c == Head(run)
             w1 == CASE c.op = "Set" -> [w EXCEPT !.header = HeaderSet(@, c.name, c.value)]
                     [] c.op = "WriteHeader" -> WriterWriteHeader(w, c.code)
                     [] c.op = "Write" -> WriterWrite(w, c.data)
         IN  RunOnWriter(Tail(run), w1)

RECURSIVE RunOnCapture(_, _)
RunOnCapture(run, rc) ==
    IF run = <<>> THEN rc
    ELSE LET c == Head(run)
             rc1 == CASE c.op = "Set" -> CaptureHeaderSet(rc, c.name, c.value)
                      [] c.op = "WriteHeader" -> CaptureWriteHeader(rc, c.code)
                      [] c.op = "Write" -> CaptureWrite(rc, c.data)
         IN  RunOnCapture(Tail(run), rc1)

\* CacheMiddlewareConfig. SkipCache holds the names of its functions,
\* CacheKeyBuilder the name of the function or NilFunc; DefaultTTL counts minutes.
DefaultTTL == 5

DefaultCacheMiddlewareConfig ==
    [DefaultTTL |-> DefaultTTL,
     OnlyMethods |-> <<"GET">>,
     SkipPaths |-> DefaultSkipPaths,
     CacheKeyBuilder |-> "DefaultCacheKeyBuilder",
     SkipCache |-> <<"SkipAuthenticatedRequests">>]

ZeroCacheMiddlewareConfig ==
    [DefaultTTL |-> 0, OnlyMethods |-> <<>>, SkipPaths |-> <<>>,
     CacheKeyBuilder |-> NilFunc, SkipCache |-> <<>>]

\* The defaults CacheMiddleware sets before it builds the handler.
CacheMiddlewareDefaults(cfg) ==
    [cfg EXCEPT
        !.OnlyMethods = IF Len(@) = 0 THEN <<"GET">> ELSE @,
        !.DefaultTTL = IF @ = 0 THEN DefaultTTL ELSE @,
        !.CacheKeyBuilder = IF @ = NilFunc THEN "DefaultCacheKeyBuilder" ELSE @]

SkipNobody(r) == FALSE

SkipAuthenticatedRequests(r) == r.auth # ""

SkipQueryParams(r) == r.query # <<>>

SkipCache(name, r) ==
    CASE name = "SkipAuthenticatedRequests" -> SkipAuthenticatedRequests(r)
      [] name = "SkipQueryParams" -> SkipQueryParams(r)

ShouldCacheAlways(r, cfg) == TRUE

\* shouldCache(r, config)
ShouldCache(r, cfg) ==
    /\ \E i \in 1..Len(cfg.OnlyMethods) : r.method = cfg.OnlyMethods[i]
    /\ ~MatchesSkipPath(r, cfg)
    /\ ~\E i \in 1..Len(cfg.SkipCache) : SkipCache(cfg.SkipCache[i], r)

\* BuildCacheKey(namespace, parts...): the parts joined by ":", kept here as
\* the sequence of the parts.
BuildCacheKey(namespace, parts) == <<namespace>> \o parts

\* The first 8 hex digits of the MD5 of method, path and query written one
\* after the other; the digest is taken to tell apart the few byte strings
\* of the requests above, so it is the string itself.
Hash8(method, path, query) == <<method>> \o path \o query

DefaultCacheKeyBuilder(r) ==
    BuildCacheKey("http", <<r.method, r.path, Hash8(r.method, r.path, r.query)>>)

\* The keys of the requests a configuration above can make eligible.
CacheKeys ==
    {DefaultCacheKeyBuilder(r) :
        r \in {q \in CacheRequests : q.method = "GET" /\ ~MatchesSkipPath(q, DefaultCacheMiddlewareConfig)}}

\* cachedResponseData and its JSON: json.Marshal names the fields by their
\* tags and writes the body in base64; json.Unmarshal reads that back and
\* fails on a string that is no JSON.
CachedResponseData(statusCode, headers, body, timestamp) ==
    [StatusCode |-> statusCode, Headers |-> headers, Body |-> body, Timestamp |-> timestamp]

NoCachedResponseData == CachedResponseData(0, NoHeaders, <<>>, 0)

Base64(bytes) == [b64 |-> bytes]

Marshal(c) ==
    [json |-> TRUE, status_code |-> c.StatusCode, headers |-> c.Headers,
     body |-> Base64(c.Body), timestamp |-> c.Timestamp]

Malformed == [Marshal(NoCachedResponseData) EXCEPT !.json = FALSE]

CanUnmarshal(str) == str.json

Unmarshal(str) ==
    CachedResponseData(str.status_code, str.headers, str.body.b64, str.timestamp)

\* time.Time.Format(time.RFC3339)
RFC3339(t) == ToString(t)

\* The string keys of the Redis database: per key the value, the time it
\* expires at, and (history) the response the client got whose capture the
\* value is.
NoResponse == [status |-> 0, headers |-> NoHeaders, body |-> <<>>]

NoEntry == [present |-> FALSE, val |-> Malformed, expireAt |-> 0, orig |-> NoResponse]

EmptyCache == [k \in CacheKeys |-> NoEntry]

CacheLive(db, now) ==
    [k \in CacheKeys |-> IF db[k].present /\ db[k].expireAt <= now THEN NoEntry ELSE db[k]]

\* The errors of redisService.
ErrNone == "nil"
ErrCacheKeyNotFound == "cache key not found"
ErrGet == "failed to get cache key"
ErrUnmarshal == "failed to unmarshal cached value"

\* redisService.Get and GetJSON: the error, and what was read.
Get(db, key, out) ==
    IF out.err THEN [err |-> ErrGet, val |-> Malformed]
    ELSE IF ~db[key].present THEN [err |-> ErrCacheKeyNotFound, val |-> Malformed]
    ELSE [err |-> ErrNone, val |-> db[key].val]

GetJSONUnchecked(db, key, out) ==
    LET got == Get(db, key, out)
    IN  IF got.err # ErrNone THEN [err |-> got.err, dest |-> NoCachedResponseData]
        ELSE [err |-> ErrNone, dest |-> Unmarshal(got.val)]

GetJSON(db, key, out) ==
    LET got == Get(db, key, out)
    IN  IF got.err # ErrNone THEN [err |-> got.err, dest |-> NoCachedResponseData]
        ELSE IF ~CanUnmarshal(got.val) THEN [err |-> ErrUnmarshal, dest |-> NoCachedResponseData]
        ELSE [err |-> ErrNone, dest |-> Unmarshal(got.val)]

\* redisService.Set and SetJSON: the database afterwards, and whether an
\* error came back. The server may have run the SET though the reply is lost.
Set(db, key, val, expiration, now, orig, out) ==
    [db |-> IF out.done = 1
            THEN [db EXCEPT ![key] = [present |-> TRUE, val |-> val,
                                      expireAt |-> now + expiration, orig |-> orig]]
            ELSE db,
     err |-> out.err]

SetJSON(db, key, value, expiration, now, orig, out) ==
    Set(db, key, Marshal(value), expiration, now, orig, out)

\* KEYS pattern: a pattern is the parts of a key, the last of them "*" when
\* the pattern ends in ":*".
Match(pattern, key) ==
    IF Len(pattern) > 0 /\ pattern[Len(pattern)] = "*"
    THEN /\ Len(key) >= Len(pattern) - 1
         /\ SubSeq(key, 1, Len(pattern) - 1) = SubSeq(pattern, 1, Len(pattern) - 1)
    ELSE key = pattern

RedisKeys(db, pattern, out) ==
    IF out.err THEN [err |-> TRUE, keys |-> {}]
    ELSE [err |-> FALSE, keys |-> {k \in CacheKeys : db[k].present /\ Match(pattern, k)}]

DeleteNothing(db, keys, out) == [db |-> db, err |-> FALSE]

\* redisService.Delete(keys...)
Delete(db, keys, out) ==
    [db |-> IF keys # {} /\ out.done = 1
            THEN [k \in CacheKeys |-> IF k \in keys THEN NoEntry ELSE db[k]]
            ELSE db,
     err |-> keys # {} /\ out.err]

\* serveCachedResponse(w, cached)
ServeCachedResponse(w, cached) ==
    LET added == [n \in HeaderNames |-> w.header[n] \o cached.Headers[n]]
        marked == HeaderSet(HeaderSet(added, "X-Cache", "HIT"),
                            "X-Cache-Time", RFC3339(cached.Timestamp))
        w1 == [w EXCEPT !.header = marked]
    IN  WriterWrite(WriterWriteHeader(w1, cached.StatusCode), cached.Body)

IsNot5xx(statusCode) == statusCode < 500

Is2xx(statusCode) == statusCode >= 200 /\ statusCode < 300

\* What is kept of a request served by one of the two middlewares.
NoCacheKey == <<>>

NoCResp ==
    [kind |-> "none", method |-> "", path |-> <<>>, auth |-> FALSE, key |-> NoCacheKey,
     lookups |-> 0, lookupErr |-> ErrNone, hit |-> FALSE, handlerCalls |-> 0,
     captured |-> 0, stores |-> 0, storeErr |-> FALSE, scans |-> 0, deletes |-> 0,
     invalidateErr |-> FALSE,
     sent |-> NoResponse, ref |-> NoResponse]

\* The handler CacheMiddleware(cacheService, config) returns, serving r with
\* `next` behind it, on a writer whose headers are `outer`: the database
\* afterwards and the record of the request. `ref` is, on a hit, what the
\* client of the stored response got, and else what `next` sends when called
\* on the server's writer itself.
CacheMiddleware(db, mwConfig, r, next, outer, now, getOut, setOut) ==
    LET cfg == CacheMiddlewareDefaults(mwConfig)
        w == NewResponseWriter(outer)
        live == Finish(RunOnWriter(next, w))
        base == [NoCResp EXCEPT !.kind = "cache", !.method = r.method, !.path = r.path,
                    !.auth = r.auth # ""]
    IN  IF ~ShouldCache(r, cfg)
        THEN [db |-> db,
              resp |-> [base EXCEPT !.handlerCalls = 1, !.sent = live, !.ref = live]]
        ELSE
            LET cacheKey == DefaultCacheKeyBuilder(r)
                got == GetJSON(db, cacheKey, getOut)
            IN  IF got.err = ErrNone
                THEN [db |-> db,
                      resp |-> [base EXCEPT !.key = cacheKey, !.lookups = 1, !.hit = TRUE,
                                   !.sent = Finish(ServeCachedResponse(w, got.dest)),
                                   !.ref = db[cacheKey].orig]]
                ELSE
                    LET rc == RunOnCapture(next, NewResponseCapture(w))
                        sent == Finish(rc.w)
                        cached == CachedResponseData(rc.statusCode, rc.w.header, rc.body, now)
                        stored == SetJSON(db, cacheKey, cached, cfg.DefaultTTL, now, sent, setOut)
                        miss == [base EXCEPT !.key = cacheKey, !.lookups = 1,
                                    !.lookupErr = got.err, !.handlerCalls = 1,
                                    !.captured = rc.statusCode, !.sent = sent, !.ref = live]
                    IN  IF Is2xx(rc.statusCode)
                        THEN [db |-> stored.db,
                              resp |-> [miss EXCEPT !.stores = 1, !.storeErr = stored.err]]
                        ELSE [db |-> db, resp |-> miss]

\* CacheInvalidateMiddleware(cacheService, patterns...)
DefaultPatterns == << <<"http", "*">> >>

RECURSIVE Invalidate(_, _, _, _)
Invalidate(db, pats, keysOut, delOut) ==
    IF pats = <<>> THEN [db |-> db, scans |-> 0, deletes |-> 0, err |-> FALSE]
    ELSE LET scan == RedisKeys(db, Head(pats), Head(keysOut))
             del == Delete(db, scan.keys, Head(delOut))
             rest == Invalidate(IF scan.err THEN db ELSE del.db,
                                Tail(pats), Tail(keysOut), Tail(delOut))
         IN  [db |-> rest.db,
              scans |-> rest.scans + 1,
              deletes |-> rest.deletes + (IF scan.keys # {} THEN 1 ELSE 0),
              err |-> scan.err \/ del.err \/ rest.err]

CacheInvalidateMiddleware(db, pats, r, next, outer, keysOut, delOut) ==
    LET patterns_ == IF Len(pats) = 0 THEN DefaultPatterns ELSE pats
        w == NewResponseWriter(outer)
        live == Finish(RunOnWriter(next, w))
        base == [NoCResp EXCEPT !.kind = "invalidate", !.method = r.method, !.path = r.path,
                    !.auth = r.auth # "", !.handlerCalls = 1, !.ref = live]
    IN  IF r.method \notin {"POST", "PUT", "PATCH", "DELETE"}
        THEN [db |-> db, resp |-> [base EXCEPT !.sent = live]]
        ELSE
            LET rc == RunOnCapture(next, NewResponseCapture(w))
                done == [base EXCEPT !.captured = rc.statusCode, !.sent = Finish(rc.w)]
            IN  IF Is2xx(rc.statusCode)
                THEN LET inv == Invalidate(db, patterns_, keysOut, delOut)
                     IN  [db |-> inv.db,
                          resp |-> [done EXCEPT !.scans = inv.scans, !.deletes = inv.deletes,
                                       !.invalidateErr = inv.err]]
                ELSE [db |-> db, resp |-> done]

\* The configurations the middlewares are built with.
MaxTTL == 1

\* The middlewares a program builds: a cache middleware and the invalidation
\* middleware of its mutating routes.
Setups ==
    { [config |-> DefaultCacheMiddlewareConfig, patterns |-> <<>>,
       outer |-> HeaderSet(NoHeaders, "Vary", "Origin")],
      [config |-> [DefaultCacheMiddlewareConfig EXCEPT !.DefaultTTL = MaxTTL],
       patterns |-> << <<"user", "*">>, <<"http", "GET", <<"/", "a">>, "*">> >>,
       outer |-> NoHeaders],
      [config |-> [ZeroCacheMiddlewareConfig EXCEPT !.SkipPaths = DefaultSkipPaths],
       patterns |-> <<>>,
       outer |-> NoHeaders] }

\* The ends of the round trips a request makes: of a read, the reply or an
\* error; of a write, as Outcomes has them; of a round trip the request does
\* not make, nothing to choose.
Replies == {out \in Outcomes(1) : out.err => out.done = 0}

NoRoundTrip == [done |-> 0, err |-> FALSE]

RoundTrip(made, ends) == IF made THEN ends ELSE {NoRoundTrip}

WillLookup(mwConfig, r) == ShouldCache(r, CacheMiddlewareDefaults(mwConfig))

WillInvalidate(r, next) ==
    /\ r.method \in {"POST", "PUT", "PATCH", "DELETE"}
    /\ Is2xx(RunOnCapture(next, NewResponseCapture(NewResponseWriter(NoHeaders))).statusCode)

PatternCount == Len(IF Len(patterns) = 0 THEN DefaultPatterns ELSE patterns)

\* The requests being served step by step: miss, a request of the cache
\* middleware between its handler and its store, with the key and the
\* captured response; inv, a request of the invalidation middleware in its
\* loop, with the index of the pattern, the keys its scan returned, the
\* calls of Delete so far, the record of the request and (history) since: the
\* keys stored since that scan. late (history): the keys stored between a
\* scan and its delete that the delete left in place.
NoMiss ==
    [pc |-> "idle", key |-> NoCacheKey, cached |-> NoCachedResponseData, orig |-> NoResponse]

NoInv ==
    [pc |-> "idle", i |-> 0, keys |-> {}, since |-> {}, deletes |-> 0, resp |-> NoCResp]

NoFlight == [miss |-> NoMiss, inv |-> NoInv, late |-> {}]

\* One request through the cache middleware, one through the invalidation
\* middleware.
CacheFrame ==
    UNCHANGED <<clock, config, memVars, redisUp, redisVars, concVars, srvVars,
                cacheConfig, patterns, outerHeaders, inflight, authVars>>

CacheServeHTTP(r, next) ==
    \E getOut \in RoundTrip(WillLookup(cacheConfig, r), Replies),
       setOut \in RoundTrip(WillLookup(cacheConfig, r), Outcomes(1)) :
        LET ret == CacheMiddleware(cache, cacheConfig, r, next, outerHeaders, clock, getOut, setOut)
        IN  /\ cache' = ret.db
            /\ cresp' = ret.resp
            /\ CacheFrame

InvalidateServeHTTP(r, next) ==
    /\ \E keysOut \in [1..PatternCount -> RoundTrip(WillInvalidate(r, next), Replies)],
         delOut \in [1..PatternCount -> RoundTrip(WillInvalidate(r, next), Outcomes(1))] :
          LET ret == CacheInvalidateMiddleware(cache, patterns, r, next, outerHeaders, keysOut, delOut)
          IN  /\ cache' = ret.db
              /\ cresp' = ret.resp
              /\ CacheFrame

\* Another client of the Redis server stores, under a key of the cache, a
\* string that is no cachedResponseData.
ForeignSet(k) ==
    /\ redisUp
    /\ cache' = [cache EXCEPT ![k] = [present |-> TRUE, val |-> Malformed,
                                      expireAt |-> clock + 1, orig |-> NoResponse]]
    /\ UNCHANGED cresp
    /\ CacheFrame

\* The two middlewares serving requests at the same time, the round trips
\* to Redis as steps: a request of the cache middleware that has missed and
\* run its handler, then stores; a request of the invalidation middleware
\* that has run its handler, then scans and deletes pattern by pattern.
RaceFrame ==
    UNCHANGED <<clock, config, memVars, redisUp, redisVars, concVars, srvVars,
                cacheConfig, patterns, outerHeaders, authVars>>

NoFailure == [done |-> 1, err |-> FALSE]

\* shouldCache, getCachedResponse (a miss), next.ServeHTTP(responseCapture, r)
\* with a captured 2xx status, cached := &cachedResponseData{...}
MissLookup(r, next) ==
    LET cfg == CacheMiddlewareDefaults(cacheConfig)
        cacheKey == DefaultCacheKeyBuilder(r)
        rc == RunOnCapture(next, NewResponseCapture(NewResponseWriter(outerHeaders)))
    IN  /\ inflight.miss.pc = "idle"
        /\ ShouldCache(r, cfg)
        /\ GetJSON(cache, cacheKey, NoFailure).err # ErrNone
        /\ Is2xx(rc.statusCode)
        /\ inflight' = [inflight EXCEPT !.miss =
                          [pc |-> "store", key |-> cacheKey,
                           cached |-> CachedResponseData(rc.statusCode, rc.w.header,
                                                         rc.body, clock),
                           orig |-> Finish(rc.w)]]
        /\ UNCHANGED <<cache, cresp>>
        /\ RaceFrame

\* cacheResponse(ctx, cacheService, cacheKey, cached, config.DefaultTTL)
MissStore ==
    LET cfg == CacheMiddlewareDefaults(cacheConfig)
        f == inflight.miss
    IN  /\ f.pc = "store"
        /\ cache' = SetJSON(cache, f.key, f.cached, cfg.DefaultTTL, clock, f.orig,
                            NoFailure).db
        /\ inflight' = [inflight EXCEPT
                          !.miss = NoMiss,
                          !.inv.since = IF inflight.inv.pc = "delete"
                                        THEN @ \cup {f.key} ELSE @]
        /\ UNCHANGED cresp
        /\ RaceFrame

\* The patterns of the invalidation middleware.
PatternsInUse == IF Len(patterns) = 0 THEN DefaultPatterns ELSE patterns

\* A write request: next.ServeHTTP(responseCapture, r) with a captured 2xx
\* status; the loop over the patterns is entered.
InvalidateBegin(r, next) ==
    /\ inflight.inv.pc = "idle"
    /\ WillInvalidate(r, next)
    /\ inflight' = [inflight EXCEPT !.inv =
                      [NoInv EXCEPT !.pc = "scan", !.i = 1,
                                    !.resp = CacheInvalidateMiddleware(
                                                 EmptyCache, patterns, r, next, outerHeaders,
                                                 [i \in 1..PatternCount |-> NoFailure],
                                                 [i \in 1..PatternCount |-> NoFailure]).resp]]
    /\ UNCHANGED <<cache, cresp>>
    /\ RaceFrame

\* keys, err := cacheService.Keys(ctx, pattern)
InvalidateScan ==
    LET f == inflight.inv
    IN  /\ f.pc = "scan"
        /\ inflight' = [inflight EXCEPT !.inv =
                          [f EXCEPT !.pc = "delete",
                                    !.keys = RedisKeys(cache, PatternsInUse[f.i], NoFailure).keys,
                                    !.since = {}]]
        /\ UNCHANGED <<cache, cresp>>
        /\ RaceFrame

\* The delete of an invalidation that removes whatever matches the pattern
\* when it runs.
InvalidateDeleteByPattern ==
    LET f == inflight.inv
        matching == RedisKeys(cache, PatternsInUse[f.i], NoFailure).keys
        deletes == f.deletes + (IF f.keys # {} THEN 1 ELSE 0)
    IN  /\ f.pc = "delete"
        /\ cache' = Delete(cache, matching, NoFailure).db
        /\ inflight' = [inflight EXCEPT
                          !.inv = IF f.i < PatternCount
                                  THEN [f EXCEPT !.pc = "scan", !.i = f.i + 1, !.keys = {},
                                                 !.since = {}, !.deletes = deletes]
                                  ELSE NoInv,
                          !.late = (@ \ f.keys) \cup (f.since \ f.keys)]
        /\ cresp' = IF f.i < PatternCount THEN cresp
                    ELSE [f.resp EXCEPT !.scans = f.i, !.deletes = deletes]
        /\ RaceFrame

\* if len(keys) > 0 { err = cacheService.Delete(ctx, keys...) }, and on to the
\* next pattern.
InvalidateDelete ==
    LET f == inflight.inv
        deletes == f.deletes + (IF f.keys # {} THEN 1 ELSE 0)
    IN  /\ f.pc = "delete"
        /\ cache' = Delete(cache, f.keys, NoFailure).db
        /\ inflight' = [inflight EXCEPT
                          !.inv = IF f.i < PatternCount
                                  THEN [f EXCEPT !.pc = "scan", !.i = f.i + 1, !.keys = {},
                                                 !.since = {}, !.deletes = deletes]
                                  ELSE NoInv,
                          !.late = (@ \ f.keys) \cup (f.since \ f.keys)]
        /\ cresp' = IF f.i < PatternCount THEN cresp
                    ELSE [f.resp EXCEPT !.scans = f.i, !.deletes = deletes]
        /\ RaceFrame

\* The state of a program that builds neither middleware.
CacheUnused ==
    /\ cacheConfig = DefaultCacheMiddlewareConfig
    /\ patterns = <<>>
    /\ outerHeaders = NoHeaders
    /\ cache = EmptyCache
    /\ cresp = NoCResp
    /\ inflight = NoFlight

\* ------------------------------------------------- the auth middlewares

\* A JWT as jwt.ParseWithClaims reads it from the token string: whether the
\* string has the form of a JWT, the alg of its header, the key its signature
\* was made with, the exp and nbf of its registered claims and the user_id
\* and roles of UserClaims (a refresh token carries neither).
Jwt(alg, key, exp, userID, roles) ==
    [wellFormed |-> TRUE, alg |-> alg, key |-> key, exp |-> exp, nbf |-> 0,
     UserID |-> userID, Roles |-> roles]

NotAJwt ==
    [wellFormed |-> FALSE, alg |-> "", key |-> "", exp |-> 0, nbf |-> 0,
     UserID |-> "", Roles |-> <<>>]

\* The token strings the clients send, each written as its name: access
\* tokens of generateAccessToken for an admin and for a user (the user's
\* expires after the first tick), a refresh token of generateRefreshToken, an
\* admin token signed with another key, one with alg none, and a string that
\* is no JWT.
TokenStrings == {"tAdmin", "tUser", "tRefresh", "tForged", "tNone", "tGarbage"}

Decode(tokenString) ==
    CASE tokenString = <<"tAdmin">>   -> Jwt("HS256", "secret", MaxTime + 1, "admin-user", <<"admin">>)
      [] tokenString = <<"tUser">>    -> Jwt("HS256", "secret", 1, "regular-user", <<"user">>)
      [] tokenString = <<"tRefresh">> -> Jwt("HS256", "secret", MaxTime + 1, "", <<>>)
      [] tokenString = <<"tForged">>  -> Jwt("HS256", "other", MaxTime + 1, "admin-user", <<"admin">>)
      [] tokenString = <<"tNone">>    -> Jwt("none", "", MaxTime + 1, "admin-user", <<"admin">>)
      [] OTHER -> NotAJwt

\* token.Method.(*jwt.SigningMethodHMAC)
IsHMAC(alg) == alg \in {"HS256", "HS384", "HS512"}

\* Mutant of ParseWithClaims: the signature is not verified.
ParseUnverified(tokenString, secret, now) ==
    LET t == Decode(tokenString)
    IN  IF ~t.wellFormed THEN [err |-> TRUE, valid |-> FALSE, claims |-> NotAJwt]
        ELSE [err |-> FALSE, valid |-> TRUE, claims |-> t]

\* jwt.ParseWithClaims(tokenString, &UserClaims{}, keyFunc) with the key
\* function of AuthMiddleware: an error for a string that is no JWT, for a
\* signing method that is not HMAC (the key function refuses it), for a
\* signature not made with the secret, for a token that has expired or is not
\* valid yet.
ParseWithClaims(tokenString, secret, now) ==
    LET t == Decode(tokenString)
        bad == [err |-> TRUE, valid |-> FALSE, claims |-> NotAJwt]
    IN  IF ~t.wellFormed THEN bad
        ELSE IF ~IsHMAC(t.alg) THEN bad
        ELSE IF t.key # secret THEN bad
        ELSE IF ~(now < t.exp) \/ now < t.nbf THEN bad
        ELSE [err |-> FALSE, valid |-> TRUE, claims |-> t]

\* shouldSkipAuth(path, skipPaths)
ShouldSkipAuth(path, skipPaths) ==
    \E i \in 1..Len(skipPaths) : HasPrefix(path, skipPaths[i])

\* extractBearerToken(authHeader): the header is kept as the sequence of its
\* scheme, blank included, and what follows; the empty string is <<>>.
ExtractBearerToken(authHeader) ==
    IF HasPrefix(authHeader, <<"Bearer ">>)
    THEN SubSeq(authHeader, 2, Len(authHeader))
    ELSE <<>>

\* The values of the request context: has tells whether the three keys of
\* AuthMiddleware are set.
NoContext == [has |-> FALSE, user_id |-> "", user_roles |-> <<>>]

StatusUnauthorized == 401
StatusForbidden == 403

\* What is kept of a request served through AuthMiddleware: the request, the
\* time, the status sent, the calls of the handler and what
\* GetUserIDFromContext returned to it.
NoAResp ==
    [kind |-> "none", path |-> <<>>, header |-> <<>>, now |-> 0, status |-> 0,
     handlerCalls |-> 0, userID |-> "", userIDOk |-> FALSE]

\* The handler behind the middlewares: it answers 200.
Handler(ctx) ==
    [status |-> StatusOK, handlerCalls |-> 1, userID |-> ctx.user_id, userIDOk |-> ctx.has]

\* http.Error(w, msg, code)
HttpError(code) ==
    [status |-> code, handlerCalls |-> 0, userID |-> "", userIDOk |-> FALSE]

\* Mutant of RequireRoles: with no roles required every user passes.
RequireRolesIfAny(requiredRoles, ctx) ==
    IF ~ctx.has
    THEN HttpError(StatusForbidden)
    ELSE LET hasRequiredRole ==
                 \/ Len(requiredRoles) = 0
                 \/ \E i \in 1..Len(ctx.user_roles), j \in 1..Len(requiredRoles) :
                       ctx.user_roles[i] = requiredRoles[j]
         IN  IF ~hasRequiredRole THEN HttpError(StatusForbidden)
             ELSE Handler(ctx)

\* RequireRoles(requiredRoles...)(next) serving a request with context ctx.
RequireRoles(requiredRoles, ctx) ==
    IF ~ctx.has
    THEN HttpError(StatusForbidden)
    ELSE LET hasRequiredRole ==
                 \E i \in 1..Len(ctx.user_roles), j \in 1..Len(requiredRoles) :
                     ctx.user_roles[i] = requiredRoles[j]
         IN  IF ~hasRequiredRole THEN HttpError(StatusForbidden)
             ELSE Handler(ctx)

\* next.ServeHTTP for the handler itself or with RequireRoles in front of it.
NextHandler(guarded, cfg, ctx) ==
    IF guarded THEN RequireRoles(cfg.RequiredRoles, ctx) ELSE Handler(ctx)

\* The handler AuthMiddleware(config)(next) returns, serving r at time now.
AuthMiddleware(cfg, r, now, guarded) ==
    IF ShouldSkipAuth(r.path, cfg.SkipPaths)
    THEN NextHandler(guarded, cfg, NoContext)
    ELSE IF r.header = <<>>
    THEN HttpError(StatusUnauthorized)
    ELSE LET tokenString == ExtractBearerToken(r.header)
         IN  IF tokenString = <<>>
             THEN HttpError(StatusUnauthorized)
             ELSE LET parsed == ParseWithClaims(tokenString, cfg.JWTSecretKey, now)
                  IN  IF parsed.err THEN HttpError(StatusUnauthorized)
                      ELSE IF ~parsed.valid THEN HttpError(StatusUnauthorized)
                      ELSE NextHandler(guarded, cfg,
                                [has |-> TRUE, user_id |-> parsed.claims.UserID,
                                 user_roles |-> parsed.claims.Roles])

\* The Authorization headers of the requests: none, Bearer with each token,
\* Bearer with nothing, another scheme, and bearer in small letters.
AuthHeaders ==
    {<<>>, <<"Bearer ">>, <<"InvalidFormat ", "tAdmin">>, <<"bearer ", "tAdmin">>}
        \cup {<<"Bearer ", t>> : t \in TokenStrings}

AuthRequests == [path : Paths, header : AuthHeaders]

\* The configurations: the secret of the tokens above, /h a skip path or
\* none, and the roles given to RequireRoles.
AuthConfigs ==
    {[JWTSecretKey |-> "secret", SkipPaths |-> sp, RequiredRoles |-> rr] :
        sp \in {<<>>, << <<"/", "h">> >>},
        rr \in {<<>>, <<"admin">>, <<"ops", "user">>}}

AuthFrame ==
    UNCHANGED <<clock, config, memVars, redisUp, redisVars, concVars, srvVars, cacheVars,
                authConfig>>

\* A request served by AuthMiddleware(config)(handler), and one served by
\* AuthMiddleware(config)(RequireRoles(roles...)(handler)).
AuthServeHTTP(r) ==
    LET ret == AuthMiddleware(authConfig, r, clock, FALSE)
    IN  /\ aresp' = [kind |-> "auth", path |-> r.path, header |-> r.header, now |-> clock,
                     status |-> ret.status, handlerCalls |-> ret.handlerCalls,
                     userID |-> ret.userID, userIDOk |-> ret.userIDOk]
        /\ AuthFrame

RolesServeHTTP(r) ==
    LET ret == AuthMiddleware(authConfig, r, clock, TRUE)
    IN  /\ aresp' = [kind |-> "roles", path |-> r.path, header |-> r.header, now |-> clock,
                     status |-> ret.status, handlerCalls |-> ret.handlerCalls,
                     userID |-> ret.userID, userIDOk |-> ret.userIDOk]
        /\ AuthFrame

\* The state of a program that builds no auth middleware.
AuthUnused ==
    /\ authConfig = [JWTSecretKey |-> "", SkipPaths |-> <<>>, RequiredRoles |-> <<>>]
    /\ aresp = NoAResp

\* ------------------------------------------------------ the environment

\* Time passes; Redis drops the keys whose expiry has come. The clock shows
\* only when time.Now() reads it, at the start of a call: the ticks during the
\* calls of all goroutines are taken when the first of them is back.
TickUpTo(last) ==
    /\ clock < last
    /\ \E p \in Procs : calls[p].pc = "idle"
    /\ started < MaxCalls
    /\ clock' = clock + 1
    /\ hist' = [k \in Keys |->
                  [hist[k] EXCEPT !.admitted = InWindow(@, clock + 1, config)]]
    /\ rdb' = Live(rdb, clock + 1)
    /\ cache' = CacheLive(cache, clock + 1)
    /\ UNCHANGED <<config, store, heap, obs, redisUp, robs, rhist, concVars, srvVars,
                   cacheConfig, patterns, outerHeaders, cresp, inflight, authVars>>

Tick == TickUpTo(MaxTime)

\* The Redis server goes down or comes back.
RedisFlips ==
    /\ redisUp' = ~redisUp
    /\ UNCHANGED <<clock, config, memVars, redisVars, concVars, srvVars, cacheVars, authVars>>

\* ------------------------------------------------------ specifications

\* NewMemoryLimiter(config) and NewRedisLimiter(cacheService, config) on an
\* empty database.
InitLimiters ==
    /\ clock = 0
    /\ config \in [Requests : 0..MaxRequests, Window : 1..MaxWindow]
    /\ store = [k \in Keys |-> Nil]
    /\ heap = [c \in CounterIds |-> FreeCell]
    /\ obs = NoObs
    /\ hist = [k \in Keys |-> FreshHist]
    /\ redisUp = TRUE
    /\ rdb = [k \in Keys |-> NoKey]
    /\ robs = NoRObs
    /\ rhist = [k \in Keys |-> FreshRHist]
    /\ mapMutex = NoOne
    /\ calls = [p \in Procs |-> NoCall]
    /\ started = 0
    /\ appConfig = NoAppConfig
    /\ redisOnce = FALSE
    /\ redisInstance = NilService
    /\ server = NoServer
    /\ redisConfig = ZeroRedisConfig
    /\ resp = NoResp
    /\ CacheUnused
    /\ AuthUnused

\* The in-memory limiter called by one caller at a time.
MemAllowStep ==
    \E k \in Keys :
        MemoryAllow(k) /\ UNCHANGED <<clock, config, redisUp, redisVars, concVars, srvVars, cacheVars, authVars>>

MemResetStep ==
    \E k \in Keys :
        MemoryReset(k) /\ UNCHANGED <<clock, config, redisUp, redisVars, concVars, srvVars, cacheVars, authVars>>

NextMem ==
    \/ MemAllowStep
    \/ MemResetStep
    \/ Tick

SpecMem == InitLimiters /\ [][NextMem]_vars

\* Both limiters given the same calls at the same times, on one key.
BothAllow ==
    /\ MemoryAllow("ka")
    /\ RedisAllow("ka")
    /\ UNCHANGED <<clock, config, redisUp, concVars, srvVars, cacheVars, authVars>>

BothReset ==
    /\ MemoryReset("ka")
    /\ RedisReset("ka")
    /\ UNCHANGED <<clock, config, redisUp, concVars, srvVars, cacheVars, authVars>>

NextBoth ==
    \/ BothAllow
    \/ BothReset
    \/ Tick
    \/ RedisFlips

SpecBoth == InitLimiters /\ [][NextBoth]_vars

\* LoginConfig: five requests in fifteen minutes.
LoginRequests == 5
LoginWindow == 15

LoginConfig == [Requests |-> LoginRequests, Window |-> LoginWindow]

\* Both limiters constructed with LoginConfig and given the same calls on one
\* key, the clock with a tick for each of the calls the limit admits.
InitLogin ==
    /\ clock = 0
    /\ config = LoginConfig
    /\ store = [k \in Keys |-> Nil]
    /\ heap = [c \in CounterIds |-> FreeCell]
    /\ obs = NoObs
    /\ hist = [k \in Keys |-> FreshHist]
    /\ redisUp = TRUE
    /\ rdb = [k \in Keys |-> NoKey]
    /\ robs = NoRObs
    /\ rhist = [k \in Keys |-> FreshRHist]
    /\ mapMutex = NoOne
    /\ calls = [p \in Procs |-> NoCall]
    /\ started = 0
    /\ appConfig = NoAppConfig
    /\ redisOnce = FALSE
    /\ redisInstance = NilService
    /\ server = NoServer
    /\ redisConfig = ZeroRedisConfig
    /\ resp = NoResp
    /\ CacheUnused
    /\ AuthUnused

LoginTick == TickUpTo(LoginRequests - 1)

NextLogin ==
    \/ BothAllow
    \/ BothReset
    \/ LoginTick

SpecLogin == InitLogin /\ [][NextLogin]_vars

\* The in-memory limiter called by the goroutines of Procs at the same time.
ConcFrame == UNCHANGED <<clock, config, obs, hist, redisUp, redisVars, srvVars, cacheVars, authVars>>

NextConc ==
    \/ \E p \in Procs, k \in Keys : AllowBegin(p, k) /\ ConcFrame
    \/ \E p \in Procs : AllowLockMap(p) /\ ConcFrame
    \/ \E p \in Procs : AllowLookup(p) /\ ConcFrame
    \/ \E p \in Procs : AllowLockCounter(p) /\ ConcFrame
    \/ \E p \in Procs : AllowCheck(p) /\ ConcFrame
    \/ \E p \in Procs : AllowAppend(p) /\ ConcFrame
    \/ \E p \in Procs : AllowReturn(p) /\ ConcFrame
    \/ \E p \in Procs, k \in Keys : ResetLockMap(p, k) /\ ConcFrame
    \/ \E p \in Procs : ResetDelete(p) /\ ConcFrame
    \/ Tick

SpecConc == InitLimiters /\ [][NextConc]_vars

\* The same with the scheduler of the Go runtime: a goroutine that can take
\* its next step takes it; a Reset is followed from its entry, where it waits
\* for the map lock. When a call begins, and whether time passes, is left open.
Running(p) ==
    \/ AllowLockMap(p) /\ ConcFrame
    \/ AllowLookup(p) /\ ConcFrame
    \/ AllowLockCounter(p) /\ ConcFrame
    \/ AllowCheck(p) /\ ConcFrame
    \/ AllowAppend(p) /\ ConcFrame
    \/ AllowReturn(p) /\ ConcFrame
    \/ ResetLock(p) /\ ConcFrame
    \/ ResetDelete(p) /\ ConcFrame

\* The limiter of one request per tick: a second call within the tick is
\* denied, and the request recorded leaves the window with the tick.
InitConcLive ==
    /\ InitLimiters
    /\ config = [Requests |-> 1, Window |-> 1]

ConcLiveTick == TickUpTo(1)

NextConcLive ==
    \/ \E p \in Procs, k \in Keys : AllowBegin(p, k) /\ ConcFrame
    \/ \E p \in Procs, k \in Keys : ResetBegin(p, k) /\ ConcFrame
    \/ \E p \in Procs : Running(p)
    \/ ConcLiveTick

SpecConcLive ==
    /\ InitConcLive
    /\ [][NextConcLive]_vars
    /\ \A p \in Procs : WF_vars(Running(p))

\* The Redis limiter called by the goroutines of Procs at the same time.
PipeFrame ==
    UNCHANGED <<clock, config, memVars, redisUp, robs, rhist, mapMutex, srvVars, cacheVars, authVars>>

NextPipe ==
    \/ \E p \in Procs, k \in Keys : PipeBegin(p, k) /\ PipeFrame
    \/ \E p \in Procs : PipeZRem(p) /\ PipeFrame
    \/ \E p \in Procs : PipeZCard(p) /\ PipeFrame
    \/ \E p \in Procs : PipeZAdd(p) /\ PipeFrame
    \/ \E p \in Procs : PipeExpire(p) /\ PipeFrame
    \/ \E p \in Procs : PipeReturn(p) /\ PipeFrame
    \/ \E p \in Procs : PipeFail(p) /\ PipeFrame
    \/ \E p \in Procs, k \in Keys : PipeReset(p, k) /\ PipeFrame
    \/ Tick

SpecPipe == InitLimiters /\ [][NextPipe]_vars

\* The Redis limiter called by the goroutines of Procs, with a server that
\* may stop answering and a client configured by cfg.Redis. A server that
\* answers runs the commands it was sent, a call whose commands were run
\* returns, and a read deadline passes; whether a connection breaks or the
\* server comes back is left open.
InitPipeLive ==
    /\ clock = 0
    /\ config \in [Requests : 0..MaxRequests, Window : 1..MaxWindow]
    /\ store = [k \in Keys |-> Nil]
    /\ heap = [c \in CounterIds |-> FreeCell]
    /\ obs = NoObs
    /\ hist = [k \in Keys |-> FreshHist]
    /\ redisUp \in BOOLEAN
    /\ rdb = [k \in Keys |-> NoKey]
    /\ robs = NoRObs
    /\ rhist = [k \in Keys |-> FreshRHist]
    /\ mapMutex = NoOne
    /\ calls = [p \in Procs |-> NoCall]
    /\ started = 0
    /\ appConfig = NoAppConfig
    /\ redisOnce = FALSE
    /\ redisInstance = NilService
    /\ server = NoServer
    /\ redisConfig \in RedisConfigs
    /\ resp = NoResp
    /\ CacheUnused
    /\ AuthUnused

PipeLiveFrame ==
    UNCHANGED <<clock, config, memVars, redisUp, robs, rhist, mapMutex, srvVars, cacheVars, authVars>>

PipeServes(p) ==
    (PipeZRem(p) \/ PipeZCard(p) \/ PipeZAdd(p) \/ PipeExpire(p) \/ PipeReturn(p))
        /\ PipeLiveFrame

PipeGivesUp(p) == PipeTimeout(p) /\ PipeLiveFrame

NextPipeLive ==
    \/ \E p \in Procs : PipeBegin(p, "ka") /\ PipeLiveFrame
    \/ \E p \in Procs : PipeServes(p)
    \/ \E p \in Procs : PipeGivesUp(p)
    \/ \E p \in Procs : PipeFail(p) /\ PipeLiveFrame
    \/ RedisFlips

SpecPipeLive ==
    /\ InitPipeLive
    /\ [][NextPipeLive]_vars
    /\ \A p \in Procs : WF_vars(PipeServes(p)) /\ WF_vars(PipeGivesUp(p))

\* The server: configured, built by NewHttpServer, serving requests one at a
\* time. redisUp: a Redis server answers at the configured address.
InitServer ==
    /\ clock = 0
    /\ appConfig \in AppConfigs
    /\ config = [Requests |-> 0, Window |-> 0, IncludeHeaders |-> FALSE,
                 StatusCode |-> 0, SkipPaths |-> <<>>, SkipFunc |-> NilFunc]
    /\ store = [k \in Keys |-> Nil]
    /\ heap = [c \in CounterIds |-> FreeCell]
    /\ obs = NoObs
    /\ hist = [k \in Keys |-> FreshHist]
    /\ redisUp \in BOOLEAN
    /\ rdb = [k \in Keys |-> NoKey]
    /\ robs = NoRObs
    /\ rhist = [k \in Keys |-> FreshRHist]
    /\ mapMutex = NoOne
    /\ calls = [p \in Procs |-> NoCall]
    /\ started = 0
    /\ redisOnce = FALSE
    /\ redisInstance = NilService
    /\ server = NoServer
    /\ redisConfig = ZeroRedisConfig
    /\ resp = NoResp
    /\ CacheUnused
    /\ AuthUnused

NextServer ==
    \/ NewHttpServer
    \/ \E r \in HttpRequests : ServeHTTP(r)
    \/ Tick
    \/ RedisFlips

SpecServer == InitServer /\ [][NextServer]_vars

\* Middleware(limiter, config) installed on a server directly, with either
\* limiter and a Config of the caller's: the status code, the skip paths and
\* the skip function as the caller sets them.
MiddlewareConfigs ==
    {[Requests |-> n, Window |-> 1, IncludeHeaders |-> h,
      StatusCode |-> o.StatusCode, SkipPaths |-> o.SkipPaths, SkipFunc |-> o.SkipFunc] :
        n \in 0..MaxRequests, h \in BOOLEAN,
        o \in {[StatusCode |-> StatusTooManyRequests, SkipPaths |-> DefaultSkipPaths,
                SkipFunc |-> NilFunc],
               [StatusCode |-> 503, SkipPaths |-> <<>>, SkipFunc |-> "SkipPathA"]}}

InitMiddleware ==
    /\ clock = 0
    /\ appConfig = NoAppConfig
    /\ config \in MiddlewareConfigs
    /\ store = [k \in Keys |-> Nil]
    /\ heap = [c \in CounterIds |-> FreeCell]
    /\ obs = NoObs
    /\ hist = [k \in Keys |-> FreshHist]
    /\ redisUp = TRUE
    /\ rdb = [k \in Keys |-> NoKey]
    /\ robs = NoRObs
    /\ rhist = [k \in Keys |-> FreshRHist]
    /\ mapMutex = NoOne
    /\ calls = [p \in Procs |-> NoCall]
    /\ started = 0
    /\ redisOnce = FALSE
    /\ redisInstance = NilService
    /\ server \in {[built |-> TRUE, rateLimit |-> TRUE, limiter |-> l, initErr |-> FALSE] :
                        l \in {"memory", "redis"}}
    /\ redisConfig = ZeroRedisConfig
    /\ resp = NoResp
    /\ CacheUnused
    /\ AuthUnused

NextMiddleware ==
    \/ \E r \in HttpRequests : ServeHTTP(r)
    \/ Tick
    \/ RedisFlips

SpecMiddleware == InitMiddleware /\ [][NextMiddleware]_vars

\* The auth middlewares in front of a handler, requests served one at a time.
InitAuth ==
    /\ clock = 0
    /\ config = LoginConfig
    /\ store = [k \in Keys |-> Nil]
    /\ heap = [c \in CounterIds |-> FreeCell]
    /\ obs = NoObs
    /\ hist = [k \in Keys |-> FreshHist]
    /\ redisUp = TRUE
    /\ rdb = [k \in Keys |-> NoKey]
    /\ robs = NoRObs
    /\ rhist = [k \in Keys |-> FreshRHist]
    /\ mapMutex = NoOne
    /\ calls = [p \in Procs |-> NoCall]
    /\ started = 0
    /\ appConfig = NoAppConfig
    /\ redisOnce = FALSE
    /\ redisInstance = NilService
    /\ server = NoServer
    /\ redisConfig = ZeroRedisConfig
    /\ resp = NoResp
    /\ CacheUnused
    /\ authConfig \in AuthConfigs
    /\ aresp = NoAResp

NextAuth ==
    \/ \E r \in AuthRequests : AuthServeHTTP(r)
    \/ \E r \in AuthRequests : RolesServeHTTP(r)
    \/ Tick

SpecAuth == InitAuth /\ [][NextAuth]_vars

\* The two cache middlewares over one Redis server, requests served one at
\* a time.
InitCache ==
    /\ clock = 0
    /\ config = LoginConfig
    /\ store = [k \in Keys |-> Nil]
    /\ heap = [c \in CounterIds |-> FreeCell]
    /\ obs = NoObs
    /\ hist = [k \in Keys |-> FreshHist]
    /\ redisUp = TRUE
    /\ rdb = [k \in Keys |-> NoKey]
    /\ robs = NoRObs
    /\ rhist = [k \in Keys |-> FreshRHist]
    /\ mapMutex = NoOne
    /\ calls = [p \in Procs |-> NoCall]
    /\ started = 0
    /\ appConfig = NoAppConfig
    /\ redisOnce = FALSE
    /\ redisInstance = NilService
    /\ server = NoServer
    /\ redisConfig = ZeroRedisConfig
    /\ resp = NoResp
    /\ \E setup \in Setups :
            /\ cacheConfig = setup.config
            /\ patterns = setup.patterns
            /\ outerHeaders = setup.outer
    /\ cache = EmptyCache
    /\ cresp = NoCResp
    /\ inflight = NoFlight
    /\ AuthUnused

CacheTick == TickUpTo(MaxTTL + 1)

GetA == CacheRequest("GET", <<"/", "a">>, <<>>, "")

GetAQ == CacheRequest("GET", <<"/", "a">>, <<"q">>, "")

GetB == CacheRequest("GET", <<"/", "b">>, <<>>, "")

NextCache ==
    \/ \E r \in CacheRequests \ {GetAQ, GetB}, next \in Handlers : CacheServeHTTP(r, next)
    \/ ForeignSet(DefaultCacheKeyBuilder(GetA))
    \/ CacheTick
    \/ RedisFlips

SpecCache == InitCache /\ [][NextCache]_vars

\* The invalidation middleware on the routes of /a, with the entries the
\* cache middleware stores for the two GET requests of /a.
InvalidateTick == TickUpTo(MaxTTL)

NextInvalidate ==
    \/ \E r \in {GetA, GetAQ, GetB} : CacheServeHTTP(r, Created)
    \/ \E r \in {q \in CacheRequests : q.path = GetA.path /\ q.query = <<>> /\ q.auth = ""},
            next \in Handlers :
            InvalidateServeHTTP(r, next)
    \/ InvalidateTick

SpecInvalidate == InitCache /\ [][NextInvalidate]_vars

\* The two middlewares on the routes of /a and /b, requests served at the
\* same time.
PostA == CacheRequest("POST", <<"/", "a">>, <<>>, "")

RaceTick == TickUpTo(MaxTTL)

NextRace ==
    \/ \E r \in {GetA, GetB} : MissLookup(r, Created)
    \/ MissStore
    \/ \E r \in {GetA, GetB} : CacheServeHTTP(r, Created)
    \/ InvalidateBegin(PostA, Created)
    \/ InvalidateScan
    \/ InvalidateDelete
    \/ RaceTick

\* The program whose invalidation middleware is built with patterns of its
\* own.
InitRace == InitCache /\ Len(patterns) > 0

SpecRace == InitRace /\ [][NextRace]_vars

\* ------------------------------------------------------------ the claims

\* C1: in-memory limiter, Requests >= 1: a call made while Requests admitted
\* calls of its key have timestamps newer than now - Window is denied with
\* RetryAfter > 0; so at no time are more than Requests admitted calls of a key
\* newer than clock - Window.
C1_OverLimitDenied ==
    /\ (obs.op = "Allow" /\ config.Requests >= 1 /\ obs.inWindow >= config.Requests)
          => (~obs.result.Allowed /\ obs.result.RetryAfter > 0)
    /\ \A k \in Keys :
          Len(InWindow(hist[k].admitted, clock, config)) <= config.Requests

C1_Witness ==
    /\ obs.op = "Allow"
    /\ config.Requests >= 1
    /\ obs.inWindow >= config.Requests
    /\ ~obs.result.Allowed
    /\ obs.now > 0

\* C2: in-memory limiter: from a fresh key, each of the first Requests calls,
\* made less than Window after the first of them, is allowed, without error.
C2_WithinLimitAllowed ==
    (/\ obs.op = "Allow"
     /\ obs.nth <= config.Requests
     /\ (obs.since = -1 \/ obs.now - obs.since < config.Window))
        => (obs.result.Allowed /\ ~obs.err)

C2_Witness ==
    /\ obs.op = "Allow"
    /\ config.Requests >= 2
    /\ obs.nth = config.Requests
    /\ obs.since # -1
    /\ obs.now - obs.since < config.Window
    /\ obs.result.Allowed

C5_KeysIndependent ==
    /\ \A k \in Keys : Recorded(k) = hist[k].solo
    /\ obs.op = "Allow" => obs.result = obs.soloResult

C5_Witness ==
    /\ config.Requests >= 1
    /\ Len(Recorded("ka")) = config.Requests
    /\ obs.op = "Allow"
    /\ obs.key = "kb"
    /\ obs.result.Allowed
    /\ obs.result.Remaining = config.Requests - 1

C7_BackendsEquivalent ==
    (/\ config.Requests >= 1
     /\ obs.op = "Allow" /\ robs.op = "Allow"
     /\ robs.clean /\ robs.spaced)
        => /\ robs.result.Allowed = obs.result.Allowed
           /\ robs.result.Limit = obs.result.Limit
           /\ robs.result.Remaining = obs.result.Remaining
           /\ ~obs.result.Allowed => robs.result.RetryAfter = obs.result.RetryAfter

\* The places of memoryLimiter.Allow between counter.mutex.Lock() and the
\* deferred Unlock.
InCounterSection(p) == calls[p].pc \in {"check", "append", "result"}

\* C6: in-memory limiter, concurrent Allow calls: a call between the eviction
\* and its return holds the mutex of its counter and is alone on that counter;
\* the count it checked is still the count when it appends, and its append
\* is the only change until it returns; so an admitted call leaves at most
\* Requests recorded requests, and of two calls racing for one slot one is
\* denied.
C6_AllowSerialized ==
    \A p \in Procs :
        InCounterSection(p) =>
            LET c == calls[p].counter
                n == Len(heap[c].requests)
            IN  /\ heap[c].mutex = p
                /\ \A q \in Procs \ {p} :
                      InCounterSection(q) => calls[q].counter # c
                /\ calls[p].pc = "append" => n = calls[p].seen
                /\ (calls[p].pc = "result" /\ calls[p].allowed)
                      => (n = calls[p].seen + 1 /\ n <= config.Requests)
                /\ (calls[p].pc = "result" /\ ~calls[p].allowed)
                      => (n = calls[p].seen /\ n >= config.Requests)

C6_Witness ==
    /\ config.Requests >= 1
    /\ calls["p1"].pc = "append"
    /\ calls["p1"].allowed
    /\ calls["p1"].seen = config.Requests - 1
    /\ calls["p2"].pc = "lockCounter"
    /\ calls["p2"].counter = calls["p1"].counter
    /\ calls["p2"].key = calls["p1"].key

\* C8: Redis limiter, two concurrent Allow calls on one key, Requests >= 1:
\* the commands of one pipeline run as a unit, so the two calls never both
\* get the count Requests - 1 (one slot left) from ZCARD before the ZADD of
\* either has run, which would admit both.
C8_PipelineAtomic ==
    \A p, q \in Procs :
        (/\ p # q
         /\ config.Requests >= 1
         /\ calls[p].op = "Allow" /\ calls[q].op = "Allow"
         /\ calls[p].key = calls[q].key
         /\ calls[p].pc = "zadd" /\ calls[q].pc = "zadd"
         /\ calls[p].seen = config.Requests - 1)
            => ~(/\ calls[q].seen = config.Requests - 1
                 /\ PipeResultOf(p).Allowed
                 /\ PipeResultOf(q).Allowed)

\* C9 as stated: a server built with rate limiting enabled has the Redis
\* limiter only if InitRedisService returned no error, and has the in-memory
\* limiter whenever InitRedisService returned an error.
C9_BackendSelection ==
    (server.built /\ server.rateLimit) =>
        /\ server.limiter = "redis" => ~server.initErr
        /\ server.initErr => server.limiter = "memory"

\* C10: a request the middleware does not skip and whose limiter.Allow
\* returns an error reaches the handler once, and the middleware writes no
\* status and no rate-limit header.
C10_FailOpen ==
    (resp.served /\ ~resp.skipped /\ resp.allowErr) =>
        /\ resp.handlerCalls = 1
        /\ resp.status = 0
        /\ resp.headers = {}

C10_Witness ==
    /\ resp.served
    /\ ~resp.skipped
    /\ resp.limiterCalls = 1
    /\ resp.allowErr
    /\ server.limiter = "redis"
    /\ resp.handlerCalls = 1

\* C11: Redis limiter: every Allow call returns, also when the server stops
\* answering: a call in progress leads to that goroutine being out of the call.
C11_AllowReturns ==
    \A p \in Procs : (calls[p].pc # "idle") ~> (calls[p].pc = "idle")

\* C12: either limiter, an Allow that returned a result, c the count in the
\* window after eviction: Limit is Requests, Remaining is
\* max(0, Requests - c - 1) if allowed and max(0, Requests - c) if denied, never
\* negative; and the n-th call on an empty key, n <= Requests, made within the
\* window at a time of its own, reports Remaining = Requests - n (4, 3, 2, 1, 0
\* for Requests = 5).
C12_Remaining ==
    LET L == config.Requests
        Expected(allowed, c) == IF allowed THEN Max(0, L - c - 1) ELSE Max(0, L - c)
    IN  /\ obs.op = "Allow" =>
              /\ obs.result.Limit = L
              /\ obs.result.Remaining = Expected(obs.result.Allowed, obs.inWindow)
              /\ obs.result.Remaining >= 0
              /\ (obs.nth <= L /\ obs.now - obs.since < config.Window)
                    => obs.result.Remaining = L - obs.nth
        /\ (robs.op = "Allow" /\ ~robs.err) =>
              /\ robs.result.Limit = L
              /\ robs.result.Remaining = Expected(robs.result.Allowed, robs.count)
              /\ robs.result.Remaining >= 0
              /\ (obs.nth <= L /\ obs.now - obs.since < config.Window
                    /\ robs.clean /\ robs.spaced /\ obs.op = "Allow")
                    => robs.result.Remaining = L - obs.nth

C12_Witness ==
    /\ config.Requests = 5
    /\ obs.op = "Allow" /\ obs.nth = config.Requests
    /\ obs.result.Allowed /\ obs.result.Remaining = 0
    /\ robs.op = "Allow" /\ ~robs.err /\ robs.clean /\ robs.spaced
    /\ robs.count = config.Requests - 1
    /\ robs.result.Allowed /\ robs.result.Remaining = 0

\* The least of a non-empty sequence of times.
Oldest(requests) ==
    CHOOSE t \in {requests[i] : i \in 1..Len(requests)} :
        \A i \in 1..Len(requests) : t <= requests[i]

\* C13: in-memory limiter, concurrent Allow calls: a denied call returns
\* RetryAfter = oldest + Window - now, oldest the least time recorded for its
\* key, and RetryAfter = Window when nothing is recorded.
C13_RetryAfter ==
    \A p \in Procs :
        (calls[p].pc = "result" /\ ~calls[p].allowed) =>
            LET reqs == heap[calls[p].counter].requests
            IN  ResultOf(p).RetryAfter =
                    IF Len(reqs) = 0 THEN config.Window
                    ELSE Oldest(reqs) + config.Window - calls[p].now

\* Ascending order of a sequence of times.
Sorted(requests) ==
    \A i, j \in 1..Len(requests) : i < j => requests[i] <= requests[j]

\* C14: in-memory limiter, concurrent Allow calls: the requests recorded in
\* every counter are in ascending order, and when a call reads them, after its
\* eviction, each is between its now - Window and its now.
C14_SortedInWindow ==
    /\ \A c \in CounterIds : heap[c].live => Sorted(heap[c].requests)
    /\ \A p \in Procs :
          calls[p].pc = "check" =>
              LET reqs == heap[calls[p].counter].requests
              IN  \A i \in 1..Len(reqs) :
                      /\ calls[p].now - config.Window <= reqs[i]
                      /\ reqs[i] <= calls[p].now


\* C15: cache middleware built with DefaultCacheMiddlewareConfig: a request
\* with a non-empty Authorization header, whatever its method and path and
\* whatever the cache holds, is passed to the handler, which runs once; the
\* cache is not read for it, it is not answered from the cache, and nothing
\* is stored for it.
C15_AuthorizedNeverCached ==
    (cresp.kind = "cache" /\ cresp.auth /\ cacheConfig = DefaultCacheMiddlewareConfig) =>
        /\ ~cresp.hit
        /\ cresp.handlerCalls = 1
        /\ cresp.lookups = 0
        /\ cresp.stores = 0
        /\ cresp.sent = cresp.ref

\* An authorized GET /a served while the cache holds a response for GET /a.
C15_Witness ==
    /\ cresp.kind = "cache" /\ cresp.auth /\ cresp.method = "GET"
    /\ cacheConfig = DefaultCacheMiddlewareConfig
    /\ redisUp
    /\ cache[DefaultCacheKeyBuilder(GetA)].present
    /\ CanUnmarshal(cache[DefaultCacheKeyBuilder(GetA)].val)
    /\ cresp.handlerCalls = 1

\* C16: a request answered from the cache gets the status, the body and, for
\* every header, the values that the client of the stored response got, and
\* besides them the two headers X-Cache: HIT and X-Cache-Time, one value
\* each; also when a middleware in front has set headers on the response
\* before the cache middleware runs.
Diagnostic == {"X-Cache", "X-Cache-Time"}

C16_ReplayedVerbatim ==
    (cresp.kind = "cache" /\ cresp.hit) =>
        /\ cresp.sent.status = cresp.ref.status
        /\ cresp.sent.body = cresp.ref.body
        /\ \A n \in HeaderNames \ Diagnostic : cresp.sent.headers[n] = cresp.ref.headers[n]
        /\ cresp.sent.headers["X-Cache"] = <<"HIT">>
        /\ Len(cresp.sent.headers["X-Cache-Time"]) = 1

\* C17: every request through the cache middleware ends in exactly one of
\* three ways. PASSTHROUGH, for a request that is not eligible (method not
\* allowed, path skipped, or a skip function true): handler run once, cache
\* not read, nothing stored. SERVE_CACHED, for an eligible request whose
\* lookup hits: handler not run, nothing stored. RETURN, for an eligible
\* request whose lookup misses: handler run once, at most one store. The
\* handler never runs twice.
Eligible(c) ==
    LET cfg == CacheMiddlewareDefaults(cacheConfig)
    IN  /\ c.method \in {cfg.OnlyMethods[i] : i \in 1..Len(cfg.OnlyMethods)}
        /\ ~MatchesSkipPath(c, cfg)
        /\ ~(c.auth /\ \E i \in 1..Len(cfg.SkipCache) :
                            cfg.SkipCache[i] = "SkipAuthenticatedRequests")

Passthrough(c) ==
    ~Eligible(c) /\ c.lookups = 0 /\ ~c.hit /\ c.handlerCalls = 1 /\ c.stores = 0

ServeCached(c) ==
    Eligible(c) /\ c.lookups = 1 /\ c.hit /\ c.handlerCalls = 0 /\ c.stores = 0

Return(c) ==
    Eligible(c) /\ c.lookups = 1 /\ ~c.hit /\ c.handlerCalls = 1 /\ c.stores \in {0, 1}

C17_OneTerminalState ==
    cresp.kind = "cache" =>
        /\ Cardinality({t \in {"PASSTHROUGH", "SERVE_CACHED", "RETURN"} :
                \/ t = "PASSTHROUGH" /\ Passthrough(cresp)
                \/ t = "SERVE_CACHED" /\ ServeCached(cresp)
                \/ t = "RETURN" /\ Return(cresp)}) = 1
        /\ cresp.handlerCalls <= 1

\* A request answered from the cache, after one that missed and stored.
C17_Witness ==
    /\ cresp.kind = "cache" /\ ServeCached(cresp)
    /\ cresp.ref.status = 201

\* The requests that leave the record c.
RequestsOf(c) ==
    {r \in CacheRequests : r.method = c.method /\ r.path = c.path /\ (r.auth # "") = c.auth}

\* A step of the cache middleware that serves a request whose lookup misses.
ServesMiss ==
    /\ \E r \in RequestsOf(cresp'), next \in Handlers : CacheServeHTTP(r, next)
    /\ cresp'.lookups = 1
    /\ ~cresp'.hit

\* After the step the captured response is the entry of the request's key,
\* expiring the configured TTL from now, and no other key has changed.
StoredByStep ==
    LET k == cresp'.key
    IN  /\ cache'[k].present
        /\ cache'[k].val.json
        /\ cache'[k].val.status_code = cresp'.captured
        /\ cache'[k].val.body.b64 = cresp'.sent.body
        /\ cache'[k].val.timestamp = clock
        /\ cache'[k].expireAt = clock + CacheMiddlewareDefaults(cacheConfig).DefaultTTL
        /\ \A other \in CacheKeys \ {k} : cache'[other] = cache[other]

\* C18 as stated: on a lookup miss, the captured response is stored under the
\* request's key with the configured TTL if and only if the captured status
\* is in 200..299; with any other status the cache is unchanged.
C18_AsStated ==
    [][ServesMiss =>
            IF cresp'.captured \in 200..299 THEN StoredByStep ELSE cache' = cache]_vars

\* C18, amended: on a lookup miss a store of the captured response under the
\* request's key with the configured TTL is attempted if and only if the
\* captured status is in 200..299; when the store returns no error the entry
\* is stored, when it returns an error the entry is stored or the cache is
\* unchanged; with any other status the cache is unchanged.
C18_StoreOn2xx ==
    [][ServesMiss =>
            /\ cresp'.stores = (IF cresp'.captured \in 200..299 THEN 1 ELSE 0)
            /\ (cresp'.stores = 1 /\ ~cresp'.storeErr) => StoredByStep
            /\ (cresp'.stores = 1 /\ cresp'.storeErr) => (StoredByStep \/ cache' = cache)
            /\ cresp'.stores = 0 => cache' = cache]_vars

\* A 201 response stored with a TTL of MaxTTL given in the configuration.
C18_Witness ==
    /\ cresp.kind = "cache" /\ cresp.lookups = 1 /\ ~cresp.hit
    /\ cresp.captured = 201 /\ cresp.stores = 1 /\ ~cresp.storeErr
    /\ cacheConfig.DefaultTTL = MaxTTL
    /\ cache[cresp.key].present
    /\ cache[cresp.key].val.status_code = 201
    /\ cache[cresp.key].expireAt = clock + MaxTTL

\* C19: a lookup that fails, because the key is absent, the server is not
\* reachable or gives an error, or the stored string is no cachedResponseData,
\* is a miss: the handler runs once and the client gets what the handler
\* sends; and when the store after the handler fails, the client still has
\* got just that.
C19_FailuresAreMisses ==
    [][\A r \in RequestsOf(cresp'), next \in Handlers :
            (CacheServeHTTP(r, next) /\ cresp'.lookups = 1) =>
                LET k == cresp'.key
                    failed == \/ ~redisUp
                              \/ ~cache[k].present
                              \/ ~cache[k].val.json
                              \/ cresp'.lookupErr # ErrNone
                    live == Finish(RunOnWriter(next, NewResponseWriter(outerHeaders)))
                IN  /\ failed => (~cresp'.hit /\ cresp'.handlerCalls = 1 /\ cresp'.sent = live)
                    /\ cresp'.storeErr => (cresp'.handlerCalls = 1 /\ cresp'.sent = live)]_vars

\* A lookup that found a string it could not read, the handler's 201 sent,
\* and the store of it failed.
C19_Witness ==
    /\ cresp.kind = "cache" /\ cresp.lookupErr = ErrUnmarshal
    /\ cresp.handlerCalls = 1 /\ cresp.sent.status = 201
    /\ cresp.stores = 1 /\ cresp.storeErr

\* C20: the invalidation middleware changes the cache only when the method
\* is POST, PUT, PATCH or DELETE and the captured status of the handler is in
\* 200..299, and then only by deleting keys that match one of its patterns
\* (http:* when none is given); when it does and no scan and no delete fails,
\* every key that was cached and matches a pattern is absent afterwards, and
\* a lookup of it misses.
\* A step of the invalidation middleware, where requests are served one at a
\* time and only the clock changes otherwise.
InvalidateServes == cresp'.kind = "invalidate" /\ clock' = clock

C20_Invalidation ==
    [][InvalidateServes =>
                LET triggers == /\ cresp'.method \in {"POST", "PUT", "PATCH", "DELETE"}
                                /\ cresp'.captured \in 200..299
                    pats == IF patterns = <<>> THEN << <<"http", "*">> >> ELSE patterns
                    matching == {k \in CacheKeys :
                                    cache[k].present /\ \E i \in 1..Len(pats) : Match(pats[i], k)}
                IN  /\ ~triggers => cache' = cache
                    /\ cresp'.scans > 0 <=> triggers
                    /\ \A k \in CacheKeys \ matching : cache'[k] = cache[k]
                    /\ \A k \in matching : cache'[k] = cache[k] \/ ~cache'[k].present
                    /\ (triggers /\ ~cresp'.invalidateErr) =>
                            \A k \in matching :
                                /\ ~cache'[k].present
                                /\ GetJSON(cache', k, [done |-> 1, err |-> FALSE]).err
                                        = ErrCacheKeyNotFound]_vars

\* A DELETE answered 201 has removed the two cached responses of /a, which
\* match the pattern http:GET:/a:*, and left the one of /b.
C20_Witness ==
    /\ cresp.kind = "invalidate" /\ cresp.method = "DELETE" /\ cresp.captured = 201
    /\ cresp.scans = 2 /\ cresp.deletes = 1 /\ ~cresp.invalidateErr
    /\ ~cache[DefaultCacheKeyBuilder(GetA)].present
    /\ ~cache[DefaultCacheKeyBuilder(GetAQ)].present
    /\ cache[DefaultCacheKeyBuilder(GetB)].present

\* C24: for either backend, an Allow(k) call that returns allowed = false
\* records nothing: the requests recorded for k after the call are those
\* recorded before it without the ones older than the window.
C24_DeniedRecordsNothing ==
    [][BothAllow =>
            /\ ~obs'.result.Allowed =>
                    Recorded("ka")' = Evict(Recorded("ka"), WindowStart(clock, config))
            /\ (~robs'.err /\ ~robs'.result.Allowed) =>
                    rdb'["ka"].zset =
                        {e \in Live(rdb, clock)["ka"].zset :
                            ~(e.score <= Float64(WindowStart(clock, config)))}]_vars

\* C25: in-memory limiter, concurrent calls: a goroutine holds the map lock
\* only between m.mutex.Lock() and the Unlock after the lookup (or through the
\* delete of Reset), never while it asks for or holds a counter lock; the
\* counters of two different keys are two counters; so while an Allow on one
\* key is in its section under the counter lock, an Allow on another key finds
\* free whichever lock it is waiting for.
C25_KeysDoNotBlock ==
    /\ \A p \in Procs :
          mapMutex = p <=> calls[p].pc \in {"lookup", "delete"}
    /\ \A p, q \in Procs :
          (/\ p # q
           /\ calls[p].op = "Allow" /\ calls[q].op = "Allow"
           /\ calls[p].key # calls[q].key
           /\ InCounterSection(q)) =>
                /\ calls[p].counter # calls[q].counter
                /\ calls[p].pc = "lockMap" => CanLock(mapMutex)
                /\ calls[p].pc = "lockCounter" => CanLock(heap[calls[p].counter].mutex)

\* One call is appending under the lock of its counter while a call on the
\* other key is about to lock its own.
C25_Witness ==
    /\ calls["p1"].op = "Allow" /\ calls["p1"].key = "ka" /\ calls["p1"].pc = "append"
    /\ calls["p2"].op = "Allow" /\ calls["p2"].key = "kb" /\ calls["p2"].pc = "lockCounter"
    /\ heap[calls["p1"].counter].mutex = "p1"

\* C27: in-memory limiter, Requests >= 0, concurrent Allow and Reset calls:
\* in every reachable state every counter, and so the counter of every key,
\* holds at most Requests recorded requests.
C27_AtMostLimitRecorded ==
    /\ \A c \in CounterIds : Len(heap[c].requests) <= config.Requests
    /\ \A k \in Keys : Len(Recorded(k)) <= config.Requests

\* The append of an admitted call has filled the counter of its key, and
\* another call on the key is waiting for the lock of the counter.
C27_Witness ==
    /\ config.Requests >= 1
    /\ Len(Recorded("ka")) = config.Requests
    /\ calls["p1"].op = "Allow" /\ calls["p1"].key = "ka"
    /\ calls["p1"].pc = "result" /\ calls["p1"].allowed
    /\ calls["p2"].op = "Allow" /\ calls["p2"].key = "ka" /\ calls["p2"].pc = "lockCounter"

\* A call waiting for a lock somebody holds.
Blocked(p) ==
    \/ calls[p].pc \in {"lockMap", "lockMapReset"} /\ ~CanLock(mapMutex)
    \/ calls[p].pc = "lockCounter" /\ ~CanLock(heap[calls[p].counter].mutex)

\* C29: in-memory limiter, concurrent Allow and Reset calls on any keys, fair
\* scheduling: while a call is in progress some call in progress is not
\* waiting for a lock; no goroutine waits for a counter lock holding the map
\* lock, nor for the map lock holding a counter lock; and every call in
\* progress leads to the goroutine being out of the call.
C29_EveryCallReturns ==
    /\ []((\E p \in Procs : calls[p].pc # "idle") =>
                \E p \in Procs : calls[p].pc # "idle" /\ ~Blocked(p))
    /\ [](\A p \in Procs :
            /\ calls[p].pc = "lockCounter" => mapMutex # p
            /\ calls[p].pc \in {"lockMap", "lockMapReset"} =>
                    \A c \in CounterIds : heap[c].mutex # p)
    /\ \A p \in Procs : (calls[p].pc # "idle") ~> (calls[p].pc = "idle")

\* A Reset waits for the map lock, which an Allow holds for its lookup.
C29_Witness ==
    /\ calls["p1"].op = "Reset" /\ calls["p1"].pc = "lockMapReset"
    /\ calls["p2"].op = "Allow" /\ calls["p2"].pc = "lookup"
    /\ mapMutex = "p2"
    /\ Blocked("p1")

\* A request the configuration asks to leave alone: the skip function returns
\* true for it, or its path is a skip path, or lies under a skip path that
\* ends in "/*".
SkipRequested(r, cfg) ==
    \/ cfg.SkipFunc # NilFunc /\ SkipFunc(cfg.SkipFunc, r)
    \/ \E i \in 1..Len(cfg.SkipPaths) :
          LET path == cfg.SkipPaths[i]
              dir  == TrimSuffix(path, <<"/", "*">>)
          IN  \/ path = r.path
              \/ /\ HasSuffix(path, <<"/", "*">>)
                 /\ (r.path = dir \/ HasPrefix(r.path, dir \o <<"/">>))

\* C28: rate-limit middleware: a request matched by the skip function or a
\* skip path reaches the handler once and no limiter is called; a request not
\* skipped whose Allow returns allowed = false without error never reaches the
\* handler, is answered the configured status code and, with IncludeHeaders,
\* a Retry-After header; a request whose Allow returns allowed = true reaches
\* the handler exactly once.
C28_MiddlewareDecision ==
    [][\A r \in HttpRequests :
          ServeHTTP(r) =>
              /\ SkipRequested(r, config) =>
                    /\ resp'.skipped /\ resp'.limiterCalls = 0 /\ resp'.handlerCalls = 1
                    /\ UNCHANGED <<store, heap, rdb>>
              /\ resp'.skipped => resp'.limiterCalls = 0 /\ resp'.handlerCalls = 1
              /\ (resp'.limiterCalls = 1 /\ ~resp'.allowErr /\ ~resp'.allowed) =>
                    /\ resp'.handlerCalls = 0
                    /\ resp'.status = config.StatusCode
                    /\ config.IncludeHeaders =>
                          "Retry-After" \in resp'.headers /\ resp'.retryAfter >= 0
              /\ resp'.allowed =>
                    resp'.limiterCalls = 1 /\ resp'.handlerCalls = 1]_vars

\* The limiter has denied a request, answered 503 with Retry-After, while the
\* quota of the client is used up.
C28_Witness ==
    /\ config.SkipFunc = "SkipPathA" /\ config.IncludeHeaders /\ config.Requests >= 1
    /\ resp.served /\ ~resp.skipped /\ resp.limiterCalls = 1 /\ ~resp.allowErr
    /\ ~resp.allowed /\ resp.handlerCalls = 0 /\ resp.status = 503
    /\ "Retry-After" \in resp.headers

\* C30: on a cache miss the status code the response capture has recorded when
\* the handler returns, the one the 2xx test reads and the cache entry gets,
\* is the status code sent to the client, whatever WriteHeader and Write
\* calls the handler makes.
C30_CapturedIsSent ==
    (cresp.kind = "cache" /\ cresp.lookups = 1 /\ ~cresp.hit) =>
        cresp.captured = cresp.sent.status

\* DefaultCacheMiddlewareConfig() with the skip paths of the configuration in
\* use.
DefaultWithSkipPaths ==
    [DefaultCacheMiddlewareConfig EXCEPT !.SkipPaths = cacheConfig.SkipPaths]

\* C21: the middleware built from a configuration whose fields are zero but
\* for the skip paths decides as the one built from
\* DefaultCacheMiddlewareConfig with those skip paths: the request it served
\* was looked up in the cache exactly if it is eligible under the default
\* configuration (method GET, path not skipped, no Authorization header), and
\* a response was stored only for such a request.
C21_ZeroConfigAsDefault ==
    (/\ cresp.kind = "cache"
     /\ cacheConfig = [ZeroCacheMiddlewareConfig EXCEPT !.SkipPaths = cacheConfig.SkipPaths]) =>
        \A r \in RequestsOf(cresp) :
            /\ cresp.lookups = 1 <=> ShouldCache(r, DefaultWithSkipPaths)
            /\ cresp.stores = 1 => ShouldCache(r, DefaultWithSkipPaths)

\* A token string that validates against the secret at time now: a JWT signed
\* with an HMAC method and the secret, within its time of validity.
Validates(tokenString, secret, now) ==
    LET t == Decode(tokenString)
    IN  /\ t.wellFormed
        /\ IsHMAC(t.alg)
        /\ t.key = secret
        /\ t.nbf <= now /\ now < t.exp

\* The request was admitted because of its path; because of its token.
BySkipPath(a) ==
    \E i \in 1..Len(authConfig.SkipPaths) : HasPrefix(a.path, authConfig.SkipPaths[i])

ByToken(a) ==
    /\ ~BySkipPath(a)
    /\ Len(a.header) >= 2
    /\ a.header[1] = "Bearer "
    /\ Validates(Tail(a.header), authConfig.JWTSecretKey, a.now)

\* C22: AuthMiddleware: the handler is invoked, once, exactly if the path
\* starts with a skip path or the Authorization header is "Bearer " followed
\* by a token that validates against the secret; every other request is
\* answered 401 without the handler; admitted by token the handler sees the
\* user id of the token in the context, admitted by skip path it sees none.
C22_AuthAdmission ==
    aresp.kind = "auth" =>
        /\ aresp.handlerCalls = 1 <=> (BySkipPath(aresp) \/ ByToken(aresp))
        /\ aresp.handlerCalls = 0 <=> aresp.status = StatusUnauthorized
        /\ aresp.handlerCalls \in {0, 1}
        /\ ByToken(aresp) =>
              /\ aresp.userIDOk
              /\ aresp.userID = Decode(Tail(aresp.header)).UserID
        /\ BySkipPath(aresp) => ~aresp.userIDOk

\* The token of the user, good at the first tick, is refused as expired.
C22_Witness ==
    /\ aresp.kind = "auth"
    /\ aresp.path = <<"/", "a">>
    /\ aresp.header = <<"Bearer ", "tUser">>
    /\ aresp.now >= 1
    /\ aresp.status = StatusUnauthorized /\ aresp.handlerCalls = 0

\* C23: RequireRoles(R) behind AuthMiddleware: a request the auth middleware
\* lets through reaches the handler exactly if the roles of its token and R
\* have a role in common; every other one is answered 403 without the
\* handler, and so is every request that comes without roles in its context
\* (one admitted by a skip path).
C23_RequireRoles ==
    (aresp.kind = "roles" /\ (BySkipPath(aresp) \/ ByToken(aresp))) =>
        LET roles == IF ByToken(aresp) THEN Decode(Tail(aresp.header)).Roles ELSE <<>>
            shared == {roles[i] : i \in 1..Len(roles)}
                        \cap {authConfig.RequiredRoles[j] : j \in 1..Len(authConfig.RequiredRoles)}
        IN  /\ aresp.handlerCalls = 1 <=> (ByToken(aresp) /\ shared # {})
            /\ aresp.handlerCalls = 0 <=> aresp.status = StatusForbidden
            /\ aresp.handlerCalls \in {0, 1}
            /\ BySkipPath(aresp) => aresp.status = StatusForbidden

\* A user without the admin role is refused by RequireRoles("admin").
C23_Witness ==
    /\ aresp.kind = "roles"
    /\ authConfig.RequiredRoles = <<"admin">>
    /\ aresp.header = <<"Bearer ", "tUser">>
    /\ aresp.now = 0
    /\ ~BySkipPath(aresp)
    /\ aresp.status = StatusForbidden /\ aresp.handlerCalls = 0

\* The last delete of an invalidation; a store of the cache middleware; a
\* scan of an invalidation.
ScanDeleteStep == inflight.inv.pc = "delete" /\ inflight'.inv.pc # "delete"

MissStoreStep == inflight.miss.pc = "store" /\ inflight'.miss.pc = "idle"

ScanStep == inflight.inv.pc = "scan" /\ inflight'.inv.pc = "delete"

\* C26 as stated: the delete of an invalidation leaves in place every entry
\* a concurrent request stored after the scan.
C26_StoredAfterScanSurvives ==
    [][ScanDeleteStep => \A k \in inflight.inv.since : cache'[k] = cache[k]]_vars

\* C26: an invalidation is a scan, then a delete of the keys the scan
\* returned and of no other: the scan returns the matching keys present when
\* it runs, the delete removes them and leaves every other entry as it is,
\* so that an entry stored after the scan under a key the scan did not
\* return survives; an entry that is present is served as a hit by a lookup
\* that gets its reply, and every entry is gone when its TTL, counted from
\* its store, has run out.
C26_ScanThenDelete ==
    [][/\ ScanStep =>
            inflight'.inv.keys =
                {k \in CacheKeys : cache[k].present /\ Match(PatternsInUse[inflight.inv.i], k)}
       /\ ScanDeleteStep =>
            \A k \in CacheKeys :
                IF k \in inflight.inv.keys THEN ~cache'[k].present
                ELSE cache'[k] = cache[k]
       /\ MissStoreStep =>
            /\ cache'[inflight.miss.key].present
            /\ cache'[inflight.miss.key].expireAt =
                   clock + CacheMiddlewareDefaults(cacheConfig).DefaultTTL
       /\ \A k \in CacheKeys : cache'[k].present => clock' < cache'[k].expireAt
       /\ (cresp' # cresp /\ cresp'.kind = "cache" /\ cresp'.lookups = 1
              /\ cresp'.lookupErr # ErrGet /\ cache[cresp'.key].present) =>
            /\ cresp'.hit
            /\ cresp'.handlerCalls = 0
            /\ cresp'.sent.body = cache[cresp'.key].orig.body]_vars

\* An entry was stored between the scan and the delete of an invalidation
\* under a key the scan had not returned, the invalidation is over, and the
\* request after it was served that entry as a hit.
C26_Witness ==
    \E k \in inflight.late :
        /\ inflight.inv.pc = "idle"
        /\ cache[k].present
        /\ cresp.kind = "cache"
        /\ cresp.key = k
        /\ cresp.hit
====
